---- MODULE Spec2Model ----
(***************************************************************************)
(* A model of python-nexus-utilities: the IDF hierarchy resolver           *)
(* (idfparser.py), the coordinate transformer (coordinatetransformer.py),  *)
(* the NeXus builder's transformation chains (nexusbuilder.py), the        *)
(* transform-chain flattener (detectorplotter.py, nexustooff.py) and the   *)
(* OFF reader and writer (readwriteoff.py).                                *)
(*                                                                         *)
(* Lengths are integers (a fixed-point grid), angles are whole multiples   *)
(* of 90 degrees, so that every rotation matrix has integer entries.       *)
(* Python's 0-based array positions are kept as data (faces,               *)
(* winding_order); a TLA+ sequence holds position p at index p + 1.        *)
(***************************************************************************)
EXTENDS Integers, Sequences, FiniteSets, TLC

VARIABLES
    pc,              \* position of the running call
    nexus_file,      \* flattener: the transformation datasets, by path
    group,           \* flattener: the geometry group and its parent group
    depends_on,      \* flattener: the depends_on reference being followed
    transformations, \* flattener: the matrices collected so far
    vertices,        \* flattener: working vertices array
    faces,           \* flattener: working faces array
    winding_order,   \* flattener: working winding_order array
    instrument,      \* builder: whether self.instrument is set (not None)
    detector_groups, \* builder: the NXdetector groups written to the file
    instrument_group, \* builder: the name of the group self.instrument is, "" when None
    file_groups,     \* builder: the groups of the file, each with the path of its parent
    builder_call,    \* builder: the last call, its group name and the exception it raised
    idf,             \* IDF parser: the instrument definition (self.root)
    components,      \* IDF parser: the component dictionaries collected
    top_level_detector_names, \* IDF parser: names of the top level components
    component_names_offsets_known, \* IDF parser: names whose offsets are known
    comp_index,      \* IDF parser: position of the for loop over components
    detectors,       \* IDF parser: the detectors list (references into components)
    rect_detectors,  \* IDF parser: records yielded by get_rectangular_detectors
    idf_raised,      \* IDF parser: the exception raised, "" when none
    pixels_and_shapes, \* IDF parser: the pixels list of get_detectors
    defaults,        \* IDF parser: the <defaults> element of the instrument definition
    self_transform,  \* IDF parser: self.transform, the CoordinateTransformer
    coord_raised,    \* IDF parser: the exception __init__ raised, "" when none
    raw_vector,      \* CoordinateTransformer: the vector given to get_nexus_coordinates
    nexus_vector,    \* CoordinateTransformer: the vector get_nexus_coordinates returned
    off_mesh,        \* OFF: the vertices, faces and winding_order given to write_off_file
    off_file,        \* OFF: the lines of the file
    parsed,          \* OFF: what parse_off_file returned
    mapped,          \* OFF: what create_off_face_vertex_map returned
    off_raised,      \* OFF: the exception raised, "" when none
    rot_args,        \* nexusutils: the arguments of the call
    rot_result,      \* nexusutils: what the call returned
    rot_raised,      \* nexusutils: the exception raised, "" when none
    geometry,        \* nexus_geometry_to_off_file: the geometry of each group found
    group_index,     \* nexus_geometry_to_off_file: groups accumulated so far
    accumulated,     \* nexus_geometry_to_off_file: vertices, faces, winding_order
    acc_file,        \* nexus_geometry_to_off_file: the lines of the OFF file
    acc_raised       \* nexus_geometry_to_off_file: the exception raised, "" when none

flatten_vars == <<nexus_file, group, depends_on, transformations, vertices, faces, winding_order>>

builder_vars == <<instrument, detector_groups, instrument_group, file_groups, builder_call>>

idf_vars == <<idf, components, top_level_detector_names, component_names_offsets_known,
              comp_index, detectors, rect_detectors, idf_raised, pixels_and_shapes>>

coord_vars == <<defaults, self_transform, coord_raised, raw_vector, nexus_vector>>

off_vars == <<off_mesh, off_file, parsed, mapped, off_raised>>

rot_vars == <<rot_args, rot_result, rot_raised>>

acc_vars == <<geometry, group_index, accumulated, acc_file, acc_raised>>

vars == <<pc, flatten_vars, builder_vars, idf_vars, coord_vars, off_vars, rot_vars, acc_vars>>

(* what a step of one component leaves alone *)
not_flatten_vars == <<builder_vars, idf_vars, coord_vars, off_vars, rot_vars, acc_vars>>

not_builder_vars == <<flatten_vars, idf_vars, coord_vars, off_vars, rot_vars, acc_vars>>

not_idf_vars == <<flatten_vars, builder_vars, coord_vars, off_vars, rot_vars, acc_vars>>

not_coord_vars == <<flatten_vars, builder_vars, idf_vars, off_vars, rot_vars, acc_vars>>

not_off_vars == <<flatten_vars, builder_vars, idf_vars, coord_vars, rot_vars, acc_vars>>

not_rot_vars == <<flatten_vars, builder_vars, idf_vars, coord_vars, off_vars, acc_vars>>

not_acc_vars == <<flatten_vars, builder_vars, idf_vars, coord_vars, off_vars, rot_vars>>

(* the state of a component that is not run *)
FlattenIdle ==
    /\ nexus_file = <<>>
    /\ group = <<>>
    /\ depends_on = <<>>
    /\ transformations = <<>>
    /\ vertices = <<>>
    /\ faces = <<>>
    /\ winding_order = <<>>

BuilderIdle ==
    /\ instrument = FALSE
    /\ detector_groups = <<>>
    /\ instrument_group = ""
    /\ file_groups = {}
    /\ builder_call = [op |-> "", name |-> "", raised |-> ""]

IdfIdle ==
    /\ idf = <<>>
    /\ components = <<>>
    /\ top_level_detector_names = {}
    /\ component_names_offsets_known = {}
    /\ comp_index = 0
    /\ detectors = <<>>
    /\ rect_detectors = <<>>
    /\ idf_raised = ""
    /\ pixels_and_shapes = <<>>

CoordIdle ==
    /\ defaults = <<>>
    /\ self_transform = <<>>
    /\ coord_raised = ""
    /\ raw_vector = <<>>
    /\ nexus_vector = <<>>

OffIdle ==
    /\ off_mesh = <<>>
    /\ off_file = <<>>
    /\ parsed = <<>>
    /\ mapped = <<>>
    /\ off_raised = ""

RotIdle ==
    /\ rot_args = <<>>
    /\ rot_result = <<>>
    /\ rot_raised = ""

AccIdle ==
    /\ geometry = <<>>
    /\ group_index = 0
    /\ accumulated = <<>>
    /\ acc_file = <<>>
    /\ acc_raised = ""

NotFlattenIdle == BuilderIdle /\ IdfIdle /\ CoordIdle /\ OffIdle /\ RotIdle /\ AccIdle

NotBuilderIdle == FlattenIdle /\ IdfIdle /\ CoordIdle /\ OffIdle /\ RotIdle /\ AccIdle

NotIdfIdle == FlattenIdle /\ BuilderIdle /\ CoordIdle /\ OffIdle /\ RotIdle /\ AccIdle

NotCoordIdle == FlattenIdle /\ BuilderIdle /\ IdfIdle /\ OffIdle /\ RotIdle /\ AccIdle

NotOffIdle == FlattenIdle /\ BuilderIdle /\ IdfIdle /\ CoordIdle /\ RotIdle /\ AccIdle

NotRotIdle == FlattenIdle /\ BuilderIdle /\ IdfIdle /\ CoordIdle /\ OffIdle /\ AccIdle

NotAccIdle == FlattenIdle /\ BuilderIdle /\ IdfIdle /\ CoordIdle /\ OffIdle /\ RotIdle

----------------------------------------------------------------------------
(* Bounds of the model *)

MaxChain == 2

MaxPixels == 2

MaxVerts == 2

MaxWind == 2

MaxDetectors == 2

(* locations a component may declare at one level of the hierarchy *)
MaxLocations == 2

(* pixels along one side of a rectangular detector *)
MaxRectPixels == 2

(* '.' ends a depends_on chain; a dataset path is a number 1, 2, ... *)
Dot == 0

(* None: the group has no depends_on dataset *)
NoDependsOn == 0 - 1

----------------------------------------------------------------------------
(* Vectors and matrices *)

RECURSIVE SeqSum(_)
SeqSum(s) == IF s = <<>> THEN 0 ELSE Head(s) + SeqSum(Tail(s))

Dot3(a, b) == a[1] * b[1] + a[2] * b[2] + a[3] * b[3]

VecAdd(a, b) == [i \in 1..Len(a) |-> a[i] + b[i]]

Scale(a, k) == [i \in 1..Len(a) |-> a[i] * k]

MatVec(m, v) == [i \in 1..Len(m) |-> SeqSum([j \in 1..Len(v) |-> m[i][j] * v[j]])]

ZeroVec == <<0, 0, 0>>

(* An angle in radians is held as a whole number of quarter turns (pi/2), an
   angle in degrees as a whole number of degrees. *)
deg2rad(degrees) == degrees \div 90

rad2deg(radians) == radians * 90

(* np.cos and np.sin of an angle in degrees, a multiple of 90 *)
CosDeg(angle) ==
    CASE angle % 360 = 0 -> 1
      [] angle % 360 = 90 -> 0
      [] angle % 360 = 180 -> 0 - 1
      [] angle % 360 = 270 -> 0

SinDeg(angle) ==
    CASE angle % 360 = 0 -> 0
      [] angle % 360 = 90 -> 1
      [] angle % 360 = 180 -> 0
      [] angle % 360 = 270 -> 0 - 1

(* np.cos and np.sin of an angle in radians *)
np_cos(radians) == CosDeg(rad2deg(radians))

np_sin(radians) == SinDeg(rad2deg(radians))

(* the matrix of the rotation of the opposite hand *)
rotation_matrix_of_opposite_hand(axis, theta) ==
    << << np_cos(theta) + axis[1] * axis[1] * (1 - np_cos(theta)),
          axis[1] * axis[2] * (1 - np_cos(theta)) + axis[3] * np_sin(theta),
          axis[1] * axis[3] * (1 - np_cos(theta)) - axis[2] * np_sin(theta) >>,
       << axis[2] * axis[1] * (1 - np_cos(theta)) - axis[3] * np_sin(theta),
          np_cos(theta) + axis[2] * axis[2] * (1 - np_cos(theta)),
          axis[2] * axis[3] * (1 - np_cos(theta)) + axis[1] * np_sin(theta) >>,
       << axis[3] * axis[1] * (1 - np_cos(theta)) + axis[2] * np_sin(theta),
          axis[3] * axis[2] * (1 - np_cos(theta)) - axis[1] * np_sin(theta),
          np_cos(theta) + axis[3] * axis[3] * (1 - np_cos(theta)) >> >>

rotation_matrix_from_axis_and_angle(axis, theta) ==
    LET axis_x == axis[1]
        axis_y == axis[2]
        axis_z == axis[3]
        cos_t == np_cos(theta)
        sin_t == np_sin(theta)
    IN  << << cos_t + axis_x * axis_x * (1 - cos_t),
              axis_x * axis_y * (1 - cos_t) - axis_z * sin_t,
              axis_x * axis_z * (1 - cos_t) + axis_y * sin_t >>,
           << axis_y * axis_x * (1 - cos_t) + axis_z * sin_t,
              cos_t + axis_y * axis_y * (1 - cos_t),
              axis_y * axis_z * (1 - cos_t) - axis_x * sin_t >>,
           << axis_z * axis_x * (1 - cos_t) - axis_y * sin_t,
              axis_z * axis_y * (1 - cos_t) + axis_x * sin_t,
              cos_t + axis_z * axis_z * (1 - cos_t) >> >>

----------------------------------------------------------------------------
(* The flattener: detectorplotter.py and nexustooff.py *)

(* The 4x4 matrix get_transformation appends for one transformation dataset *)
get_transformation(transform) ==
    LET offset == transform.offset
    IN  IF transform.transformation_type = "translation"
        THEN LET vector == Scale(transform.vector, transform.value)
             IN  << <<1, 0, 0, vector[1] + offset[1]>>,
                    <<0, 1, 0, vector[2] + offset[2]>>,
                    <<0, 0, 1, vector[3] + offset[3]>>,
                    <<0, 0, 0, 1>> >>
        ELSE LET axis == transform.vector
                 angle == deg2rad(transform.value)
                 rotation_matrix ==
                     rotation_matrix_from_axis_and_angle(axis, angle)
             IN  << <<rotation_matrix[1][1], rotation_matrix[1][2], rotation_matrix[1][3], offset[1]>>,
                    <<rotation_matrix[2][1], rotation_matrix[2][2], rotation_matrix[2][3], offset[2]>>,
                    <<rotation_matrix[3][1], rotation_matrix[3][2], rotation_matrix[3][3], offset[3]>>,
                    <<0, 0, 0, 1>> >>

(* do_transformations: every matrix of the list, in list order, applied to every column *)
RECURSIVE do_transformations_column(_, _)
do_transformations_column(matrices, column) ==
    IF matrices = <<>> THEN column
    ELSE do_transformations_column(Tail(matrices), MatVec(Head(matrices), column))

do_transformations(matrices, columns) ==
    [c \in 1..Len(columns) |-> do_transformations_column(matrices, columns[c])]

(* the homogeneous columns returned with their fourth element *)
apply_collected_keeping_fourth(matrices, verts) ==
    do_transformations(matrices, [c \in 1..Len(verts) |-> Append(verts[c], 1)])

(* get_and_apply_transformations, after the chain has been collected: a fourth
   element of 1 is added to each vertex, the matrices applied, the element dropped *)
apply_collected(matrices, verts) ==
    LET columns == [c \in 1..Len(verts) |-> Append(verts[c], 1)]
        moved == do_transformations(matrices, columns)
    IN  [c \in 1..Len(verts) |-> SubSeq(moved[c], 1, 3)]

(* faces, winding_order: a scalar added to every entry (numpy broadcasting) *)
AddScalar(arr, k) == [i \in 1..Len(arr) |-> arr[i] + k]

(* arr[start : start + len(vals)] = vals on a preallocated array *)
SetSlice(arr, start, vals) ==
    [i \in 1..Len(arr) |->
        IF i - 1 >= start /\ i - 1 < start + Len(vals) THEN vals[i - start] ELSE arr[i]]

(* np.empty: the preallocated arrays hold no meaningful value until written *)
Uninitialised == 0 - 99

(* a re-basing slip: faces re-based by the vertex count instead of the winding-order length *)
accumulate_rebased_by_vertex(verts, fcs, wo, new_vertices, new_faces, new_winding_order, next_indices) ==
    [vertices |-> SetSlice(verts, next_indices.vertex, new_vertices),
     faces |-> SetSlice(fcs, next_indices.face, AddScalar(new_faces, next_indices.vertex)),
     winding_order |-> SetSlice(wo, next_indices.winding_order, AddScalar(new_winding_order, next_indices.vertex)),
     next_indices |-> [face |-> next_indices.face + Len(new_faces),
                       winding_order |-> next_indices.winding_order + Len(new_winding_order),
                       vertex |-> next_indices.vertex + Len(new_vertices)]]

accumulate_geometry_in_prealloc_arrays(verts, fcs, wo, new_vertices, new_faces, new_winding_order, next_indices) ==
    [vertices |-> SetSlice(verts, next_indices.vertex, new_vertices),
     faces |-> SetSlice(fcs, next_indices.face, AddScalar(new_faces, next_indices.winding_order)),
     winding_order |-> SetSlice(wo, next_indices.winding_order, AddScalar(new_winding_order, next_indices.vertex)),
     next_indices |-> [face |-> next_indices.face + Len(new_faces),
                       winding_order |-> next_indices.winding_order + Len(new_winding_order),
                       vertex |-> next_indices.vertex + Len(new_vertices)]]

(* get_pixel_offsets: z_pixel_offset is optional and defaults to zeros *)
get_pixel_offsets(g) ==
    [x |-> g.x_pixel_offset,
     y |-> g.y_pixel_offset,
     z |-> IF g.has_z_pixel_offset THEN g.z_pixel_offset
           ELSE [i \in 1..Len(g.x_pixel_offset) |-> 0]]

(* the loop of replicate_if_pixel_geometry from pixel_number on *)
RECURSIVE replicate_pixels(_, _, _, _, _, _)
replicate_pixels(acc, pixel_number, offsets, pixel_vertices, pixel_faces, pixel_winding_order) ==
    IF pixel_number >= Len(offsets.x) THEN acc
    ELSE LET new_vertices ==
                 [i \in 1..Len(pixel_vertices) |->
                     << pixel_vertices[i][1] + offsets.x[pixel_number + 1],
                        pixel_vertices[i][2] + offsets.y[pixel_number + 1],
                        pixel_vertices[i][3] + offsets.z[pixel_number + 1] >>]
         IN  replicate_pixels(
                 accumulate_geometry_in_prealloc_arrays(acc.vertices, acc.faces, acc.winding_order,
                     new_vertices, pixel_faces, pixel_winding_order, acc.next_indices),
                 pixel_number + 1, offsets, pixel_vertices, pixel_faces, pixel_winding_order)

replicate_if_pixel_geometry(g, verts, fcs, wo) ==
    IF g.name = "pixel_shape"
    THEN LET offsets == get_pixel_offsets(g)
             number_of_pixels == Len(offsets.x)
             total_num_of_vertices == number_of_pixels * Len(verts)
             prealloc ==
                 [vertices |-> [i \in 1..total_num_of_vertices |-> <<Uninitialised, Uninitialised, Uninitialised>>],
                  winding_order |-> [i \in 1..(Len(wo) * number_of_pixels) |-> Uninitialised],
                  faces |-> [i \in 1..(Len(fcs) * number_of_pixels) |-> Uninitialised],
                  next_indices |-> [vertex |-> 0, face |-> 0, winding_order |-> 0]]
             result == replicate_pixels(prealloc, 0, offsets, verts, fcs, wo)
         IN  [vertices |-> result.vertices, faces |-> result.faces, winding_order |-> result.winding_order]
    ELSE [vertices |-> verts, faces |-> fcs, winding_order |-> wo]

----------------------------------------------------------------------------
(* get_geometry_from_group, step by step *)

(* lines 115-129 and 60-64: read the group's geometry, replicate it when it is a
   pixel shape, and read the parent group's depends_on *)
GetGeometryFromGroup ==
    /\ pc = "get_geometry"
    /\ LET replicated == replicate_if_pixel_geometry(group, group.vertices, group.faces, group.winding_order)
       IN  /\ vertices' = replicated.vertices
           /\ faces' = replicated.faces
           /\ winding_order' = replicated.winding_order
    /\ depends_on' = group.depends_on
    /\ transformations' = <<>>
    /\ pc' = "get_transformations"
    /\ UNCHANGED <<nexus_file, group, not_flatten_vars>>

(* the chain collected root first: each transformation put in front of the list *)
get_transformations_root_first ==
    /\ pc = "get_transformations"
    /\ depends_on # NoDependsOn
    /\ depends_on # Dot
    /\ LET transform == nexus_file[depends_on]
       IN  /\ transformations' = <<get_transformation(transform)>> \o transformations
           /\ depends_on' = transform.depends_on
    /\ UNCHANGED <<pc, nexus_file, group, vertices, faces, winding_order, not_flatten_vars>>

(* one call of get_transformations that finds a transformation to follow *)
get_transformations ==
    /\ pc = "get_transformations"
    /\ depends_on # NoDependsOn
    /\ depends_on # Dot
    /\ LET transform == nexus_file[depends_on]
       IN  /\ transformations' = Append(transformations, get_transformation(transform))
           /\ depends_on' = transform.depends_on
    /\ UNCHANGED <<pc, nexus_file, group, vertices, faces, winding_order, not_flatten_vars>>

(* the call of get_transformations that ends the recursion, then lines 67-72 of
   get_and_apply_transformations *)
get_and_apply_transformations ==
    /\ pc = "get_transformations"
    /\ depends_on = NoDependsOn \/ depends_on = Dot
    /\ vertices' = apply_collected(transformations, vertices)
    /\ pc' = "flattened"
    /\ UNCHANGED <<nexus_file, group, depends_on, transformations, faces, winding_order, not_flatten_vars>>

NextFlatten ==
    \/ GetGeometryFromGroup
    \/ get_transformations
    \/ get_and_apply_transformations

----------------------------------------------------------------------------
(* The NeXus files the flattener is run on *)

UnitAxes == {<<1, 0, 0>>, <<0, 1, 0>>, <<0, 0, 1>>}

(* a transformation dataset: its value, its attributes *)
TransformSet ==
    [transformation_type : {"translation"}, vector : {<<1, 0, 0>>, <<0, 0, 1>>}, value : {1, 2},
     offset : {ZeroVec, <<0, 1, 0>>}]
    \cup
    [transformation_type : {"rotation"}, vector : {<<0, 0, 1>>, <<1, 0, 0>>}, value : {90, 270},
     offset : {ZeroVec, <<0, 1, 0>>}]

(* the datasets of a chain as the builder writes them: dataset k depends on
   dataset k + 1, the last one on '.' *)
LinkChain(nodes) ==
    [k \in 1..Len(nodes) |->
        [transformation_type |-> nodes[k].transformation_type, vector |-> nodes[k].vector,
         value |-> nodes[k].value, offset |-> nodes[k].offset,
         depends_on |-> IF k = Len(nodes) THEN Dot ELSE k + 1]]

SeqsUpTo(S, n) == UNION {[1..k -> S] : k \in 0..n}

(* vertex i of the sample meshes *)
SampleVertex(i) == <<i, 2 * i, 1 - i>>

(* the start offsets of the faces of a winding order of length w: 0 first, increasing *)
FaceStarts(w) ==
    {f \in SeqsUpTo(0..(w - 1), w) :
        /\ Len(f) >= 1
        /\ f[1] = 0
        /\ \A i \in 1..(Len(f) - 1) : f[i] < f[i + 1]}

(* well-formed meshes of up to MaxVerts vertices and MaxWind winding entries *)
Meshes ==
    UNION {
        {[vertices |-> [i \in 1..v |-> SampleVertex(i - 1)], faces |-> f, winding_order |-> wo] :
            f \in FaceStarts(Len(wo))} :
        <<v, wo>> \in {<<v, wo>> \in (1..MaxVerts) \X SeqsUpTo(0..(MaxVerts - 1), MaxWind) :
                        /\ Len(wo) >= 1
                        /\ \A i \in 1..Len(wo) : wo[i] < v}}

PixelOffsetSet == {<<1, 0, 0>>, <<0, 3, 1>>}

Triangle ==
    [vertices |-> <<ZeroVec, <<1, 0, 0>>, <<0, 1, 0>>>>, faces |-> <<0>>, winding_order |-> <<0, 1, 2>>]

Group(name, mesh, dep, offsets, has_z) ==
    [name |-> name, vertices |-> mesh.vertices, faces |-> mesh.faces,
     winding_order |-> mesh.winding_order, depends_on |-> dep,
     x_pixel_offset |-> [i \in 1..Len(offsets) |-> offsets[i][1]],
     y_pixel_offset |-> [i \in 1..Len(offsets) |-> offsets[i][2]],
     has_z_pixel_offset |-> has_z,
     z_pixel_offset |-> [i \in 1..Len(offsets) |-> IF has_z THEN offsets[i][3] ELSE 0]]

(* a shape group of a component: every chain, entered at any dataset or not at all *)
InitChains ==
    /\ \E nodes \in SeqsUpTo(TransformSet, MaxChain) :
         /\ nexus_file = LinkChain(nodes)
         /\ \E dep \in {NoDependsOn, Dot} \cup (1..Len(nodes)) :
              group = Group("shape", Triangle, dep, <<>>, FALSE)

(* a pixel_shape group of a detector: every mesh and every list of pixel offsets *)
InitPixels ==
    /\ \E nodes \in {<<>>,
                     <<[transformation_type |-> "rotation", vector |-> <<0, 0, 1>>, value |-> 90, offset |-> ZeroVec]>>,
                     <<[transformation_type |-> "translation", vector |-> <<0, 0, 1>>, value |-> 1, offset |-> ZeroVec],
                       [transformation_type |-> "rotation", vector |-> <<1, 0, 0>>, value |-> 90, offset |-> ZeroVec]>>} :
         /\ nexus_file = LinkChain(nodes)
         /\ \E mesh \in Meshes, offsets \in SeqsUpTo(PixelOffsetSet, MaxPixels), has_z \in BOOLEAN :
              group = Group("pixel_shape", mesh, IF nodes = <<>> THEN Dot ELSE 1, offsets, has_z)

InitFlatten ==
    /\ pc = "get_geometry"
    /\ NotFlattenIdle
    /\ InitChains \/ InitPixels
    /\ depends_on = NoDependsOn
    /\ transformations = <<>>
    /\ vertices = <<>>
    /\ faces = <<>>
    /\ winding_order = <<>>

SpecFlatten == InitFlatten /\ [][NextFlatten]_vars

(* a translation with and without an offset, and a rotation *)
WalkedTransformSet ==
    {t \in TransformSet :
        /\ t.vector = <<0, 0, 1>>
        /\ t.value \in {1, 90}
        /\ t.transformation_type = "rotation" => t.offset = ZeroVec}

(* the flattener run on the shape group of a component, every chain of these *)
InitFlattenChains ==
    /\ pc = "get_geometry"
    /\ NotFlattenIdle
    /\ depends_on = NoDependsOn
    /\ transformations = <<>>
    /\ vertices = <<>>
    /\ faces = <<>>
    /\ winding_order = <<>>
    /\ \E nodes \in SeqsUpTo(WalkedTransformSet, MaxChain) :
         /\ nexus_file = LinkChain(nodes)
         /\ \E dep \in {NoDependsOn, Dot} \cup (1..Len(nodes)) :
              group = Group("shape", Triangle, dep, <<>>, FALSE)

(* the flattener is one sequential call: a step that can be taken is taken *)
SpecFlattenFair == InitFlattenChains /\ [][NextFlatten]_vars /\ WF_vars(NextFlatten)

----------------------------------------------------------------------------
(* Properties of the flattener *)

(* the datasets of the chain the group's depends_on leads to, nearest first *)
RECURSIVE ChainFrom(_)
ChainFrom(dep) ==
    IF dep = NoDependsOn \/ dep = Dot THEN <<>>
    ELSE <<nexus_file[dep]>> \o ChainFrom(nexus_file[dep].depends_on)

(* T1(T2(...Tn(column))) for the chain <<T1, ..., Tn>> *)
RECURSIVE ApplyRootFirst(_, _)
ApplyRootFirst(chain, column) ==
    IF chain = <<>> THEN column
    ELSE MatVec(get_transformation(Head(chain)), ApplyRootFirst(Tail(chain), column))

(* the vertices handed to get_and_apply_transformations *)
ChainInput == replicate_if_pixel_geometry(group, group.vertices, group.faces, group.winding_order).vertices

(* C1: flattening maps every vertex v to T1(T2(...Tn(v))), where T1 is the
   transformation nearest to the geometry and Tn the one that depends on '.':
   the root-most transformation is applied first, the nearest one last. *)
C1_ChainAppliedRootFirst ==
    pc = "flattened" =>
        /\ Len(vertices) = Len(ChainInput)
        /\ \A c \in 1..Len(vertices) :
             vertices[c] = SubSeq(ApplyRootFirst(ChainFrom(group.depends_on), Append(ChainInput[c], 1)), 1, 3)

(* the group's parent has no depends_on, or one that is '.' *)
NoChain == group.depends_on = NoDependsOn \/ group.depends_on = Dot

(* C20: flattening a geometry group whose parent group has no depends_on, or
   the depends_on '.', returns the vertices unchanged, and flattening the
   result again leaves it unchanged. *)
C20_NoChainIsIdentity ==
    (pc = "flattened" /\ NoChain) =>
        /\ transformations = <<>>
        /\ vertices = ChainInput
        /\ group.name = "shape" => vertices = group.vertices
        /\ apply_collected(transformations, vertices) = vertices

C20_Witness ==
    /\ pc = "flattened"
    /\ group.depends_on = NoDependsOn
    /\ Len(nexus_file) = 2
    /\ vertices = <<ZeroVec, <<1, 0, 0>>, <<0, 1, 0>>>>

PixelCount == Len(group.x_pixel_offset)

PixelOffset(k) ==
    <<group.x_pixel_offset[k + 1], group.y_pixel_offset[k + 1],
      IF group.has_z_pixel_offset THEN group.z_pixel_offset[k + 1] ELSE 0>>

(* C3: replicate_if_pixel_geometry on a pixel mesh of v vertices, f faces and
   winding-order length w with n pixel offsets returns n*v vertices, n*f faces
   and n*w winding-order entries; in copy k (from 0) every faces entry is the
   pixel's plus k*w, every winding_order entry the pixel's plus k*v, and every
   vertex the pixel's vertex translated by offset k. *)
C3_ReplicationScaling ==
    (pc = "get_transformations" /\ group.name = "pixel_shape") =>
        LET v == Len(group.vertices)
            f == Len(group.faces)
            w == Len(group.winding_order)
            n == PixelCount
        IN  /\ Len(vertices) = n * v
            /\ Len(faces) = n * f
            /\ Len(winding_order) = n * w
            /\ \A k \in 0..(n - 1) :
                 /\ \A i \in 1..f : faces[k * f + i] = group.faces[i] + k * w
                 /\ \A i \in 1..w : winding_order[k * w + i] = group.winding_order[i] + k * v
                 /\ \A i \in 1..v : vertices[k * v + i] = VecAdd(group.vertices[i], PixelOffset(k))

(* a pixel of one vertex, two faces and two winding entries has been replicated at two offsets *)
C3_Witness ==
    /\ pc = "get_transformations"
    /\ group.name = "pixel_shape"
    /\ PixelCount = 2
    /\ Len(group.vertices) = 1
    /\ Len(group.faces) = 2
    /\ Len(group.winding_order) = 2
    /\ Len(faces) = 4
    /\ faces[3] = 2

----------------------------------------------------------------------------
(* The builder: nexusbuilder.py *)

(* normalise, for a vector along one axis: the unit vector and the magnitude *)
Abs(x) == IF x < 0 THEN 0 - x ELSE x

Sign(x) == IF x < 0 THEN 0 - 1 ELSE IF x > 0 THEN 1 ELSE 0

normalise(input_vector) ==
    LET magnitude == Abs(input_vector[1]) + Abs(input_vector[2]) + Abs(input_vector[3])
    IN  IF magnitude = 0 THEN [unit_vector |-> ZeroVec, magnitude |-> 0]
        ELSE [unit_vector |-> [i \in 1..3 |-> Sign(input_vector[i])], magnitude |-> magnitude]

(* add_transformation: the dataset written, with its attributes *)
add_transformation(transformation_type, values, units, vector, name, dep) ==
    [name |-> name, value |-> values,
     units |-> units, vector |-> vector, transformation_type |-> transformation_type,
     depends_on |-> dep]

(* __add_detector_transformations: the datasets of the group's NXtransformations
   group, in the order written, and the group's depends_on ("" when none is written) *)
add_detector_transformations(detector) ==
    IF ~detector.has_location
    THEN [transformations |-> <<>>, depends_on |-> ""]
    ELSE LET translate == normalise(detector.location)
             location_transformation ==
                 add_transformation("translation", translate.magnitude, "m", translate.unit_vector,
                                    "location", ".")
         IN  IF detector.has_orientation
             THEN LET orientation_transformation ==
                          add_transformation("rotation", detector.orientation.angle, "degrees",
                                             detector.orientation.axis, "orientation",
                                             location_transformation.name)
                  IN  [transformations |-> <<location_transformation, orientation_transformation>>,
                       depends_on |-> orientation_transformation.name]
             ELSE [transformations |-> <<location_transformation>>,
                   depends_on |-> location_transformation.name]

(* the detector records the IDF parser hands to the builder *)
DetectorRecords ==
    [has_location : {TRUE}, location : {<<0, 0, 3>>, <<2, 0, 0>>, ZeroVec},
     has_orientation : {FALSE}, orientation : {[axis |-> ZeroVec, angle |-> 0]}]
    \cup
    [has_location : {TRUE}, location : {<<0, 0, 3>>, <<2, 0, 0>>, ZeroVec},
     has_orientation : {TRUE}, orientation : [axis : {<<0, 1, 0>>, <<1, 0, 0>>}, angle : {90, 270}]]
    \cup
    [has_location : {FALSE}, location : {ZeroVec},
     has_orientation : {FALSE}, orientation : {[axis |-> ZeroVec, angle |-> 0]}]
    \cup
    [has_location : {FALSE}, location : {ZeroVec},
     has_orientation : {TRUE}, orientation : [axis : {<<0, 1, 0>>}, angle : {90}]]

(* group_name.replace(' ', '_'), on the names the builder is called with *)
replace_spaces(group_name) ==
    IF group_name = "instrument 2" THEN "instrument_2"
    ELSE IF group_name = "monitor 1" THEN "monitor_1"
    ELSE group_name

(* 'detector_' + str(number) *)
detector_group_name(number) == <<"detector_1", "detector_2", "detector_3", "detector_4">>[number]

(* the group add_nx_group creates; parent_path is the path of the parent group
   from the NXentry group *)
nx_group(parent_path, group_name, nx_class_name) ==
    [parent |-> parent_path, name |-> replace_spaces(group_name), nx_class |-> nx_class_name]

(* create_group raises ValueError when the parent has a member of that name *)
name_already_exists(parent_path, group_name) ==
    \E g \in file_groups : g.parent = parent_path /\ g.name = replace_spaces(group_name)

(* the path of self.instrument *)
instrument_path == <<instrument_group>>

(* the call raised: nothing is written *)
builder_raises(op, group_name, exception) ==
    /\ builder_call' = [op |-> op, name |-> group_name, raised |-> exception]
    /\ UNCHANGED <<instrument, instrument_group, file_groups>>

(* the groups of a call that returned *)
builder_adds(op, group_name, new_groups) ==
    /\ builder_call' = [op |-> op, name |-> group_name, raised |-> ""]
    /\ file_groups' = file_groups \cup new_groups

(* the NXtransformations group add_source and add_monitor write a location into *)
transformations_group(parent_path, group_name) ==
    nx_group(Append(parent_path, replace_spaces(group_name)), "transformations", "NXtransformations")

InstrumentGroupNames == {"instrument", "instrument 2"}

(* add_instrument; it is not called while the loop of add_detectors_from_idf runs *)
add_instrument ==
    /\ pc = "build"
    /\ detector_groups = <<>>
    /\ \E instrument_group_name \in InstrumentGroupNames :
         IF name_already_exists(<<>>, instrument_group_name)
         THEN builder_raises("add_instrument", replace_spaces(instrument_group_name), "ValueError")
         ELSE /\ builder_adds("add_instrument", replace_spaces(instrument_group_name),
                              {nx_group(<<>>, instrument_group_name, "NXinstrument")})
              /\ instrument' = TRUE
              /\ instrument_group' = replace_spaces(instrument_group_name)
    /\ UNCHANGED <<pc, detector_groups, not_builder_vars>>

(* the body of the loop of add_detectors_from_idf for one detector: add_detector,
   then __add_detector_transformations *)
add_detectors_from_idf ==
    /\ pc = "build"
    /\ instrument
    /\ Len(detector_groups) < MaxDetectors
    /\ \E detector \in DetectorRecords :
         LET written == add_detector_transformations(detector)
             number == Len(detector_groups) + 1
         IN  /\ detector_groups' = Append(detector_groups,
                    [number |-> number,
                     detector |-> detector,
                     transformations |-> written.transformations,
                     depends_on |-> written.depends_on])
             /\ builder_adds("add_detectors_from_idf", detector_group_name(number),
                    {nx_group(instrument_path, detector_group_name(number), "NXdetector")}
                    \cup (IF detector.has_location
                          THEN {transformations_group(instrument_path, detector_group_name(number))}
                          ELSE {}))
    /\ UNCHANGED <<pc, instrument, instrument_group, not_builder_vars>>

NextBuilder ==
    \/ add_instrument
    \/ add_detectors_from_idf

InitBuilder ==
    /\ pc = "build"
    /\ NotBuilderIdle
    /\ BuilderIdle

SpecBuilder == InitBuilder /\ [][NextBuilder]_vars

(* Groups added beneath the instrument: add_source, add_monitor,
   add_detector_minimal, add_detector *)

SourceGroupNames == {"source", "monitor_1"}

MonitorNames == {"monitor 1", "monitor_1", "detector_1"}

DetectorNumbers == {1, 2}

(* the NXsource group created in the NXentry group *)
add_source_beneath_root ==
    /\ pc = "build"
    /\ \E group_name \in SourceGroupNames, has_position \in BOOLEAN :
         IF ~instrument
         THEN builder_raises("add_source", group_name, "Exception")
         ELSE IF name_already_exists(<<>>, group_name)
         THEN builder_raises("add_source", group_name, "ValueError")
         ELSE /\ builder_adds("add_source", group_name,
                    {nx_group(<<>>, group_name, "NXsource")}
                    \cup (IF has_position THEN {transformations_group(<<>>, group_name)} ELSE {}))
              /\ UNCHANGED <<instrument, instrument_group>>
    /\ UNCHANGED <<pc, detector_groups, not_builder_vars>>

(* add_source *)
add_source ==
    /\ pc = "build"
    /\ \E group_name \in SourceGroupNames, has_position \in BOOLEAN :
         IF ~instrument
         THEN builder_raises("add_source", group_name, "Exception")
         ELSE IF name_already_exists(instrument_path, group_name)
         THEN builder_raises("add_source", group_name, "ValueError")
         ELSE /\ builder_adds("add_source", group_name,
                    {nx_group(instrument_path, group_name, "NXsource")}
                    \cup (IF has_position
                          THEN {transformations_group(instrument_path, group_name)} ELSE {}))
              /\ UNCHANGED <<instrument, instrument_group>>
    /\ UNCHANGED <<pc, detector_groups, not_builder_vars>>

(* add_monitor *)
add_monitor ==
    /\ pc = "build"
    /\ \E monitor_name \in MonitorNames :
         IF ~instrument
         THEN builder_raises("add_monitor", replace_spaces(monitor_name), "Exception")
         ELSE IF name_already_exists(instrument_path, monitor_name)
         THEN builder_raises("add_monitor", replace_spaces(monitor_name), "ValueError")
         ELSE /\ builder_adds("add_monitor", replace_spaces(monitor_name),
                    {nx_group(instrument_path, monitor_name, "NXmonitor"),
                     transformations_group(instrument_path, monitor_name)})
              /\ UNCHANGED <<instrument, instrument_group>>
    /\ UNCHANGED <<pc, detector_groups, not_builder_vars>>

(* the body of add_detector_minimal, called as op *)
detector_minimal(op, number) ==
    IF ~instrument
    THEN builder_raises(op, detector_group_name(number), "Exception")
    ELSE IF name_already_exists(instrument_path, detector_group_name(number))
    THEN builder_raises(op, detector_group_name(number), "ValueError")
    ELSE /\ builder_adds(op, detector_group_name(number),
                         {nx_group(instrument_path, detector_group_name(number), "NXdetector")})
         /\ UNCHANGED <<instrument, instrument_group>>

(* add_detector_minimal *)
add_detector_minimal ==
    /\ pc = "build"
    /\ \E number \in DetectorNumbers : detector_minimal("add_detector_minimal", number)
    /\ UNCHANGED <<pc, detector_groups, not_builder_vars>>

(* add_detector: error_if_not_none_or_scalar, then add_detector_minimal *)
add_detector ==
    /\ pc = "build"
    /\ \E number \in DetectorNumbers, sizes_are_scalar \in BOOLEAN :
         IF ~sizes_are_scalar
         THEN builder_raises("add_detector", detector_group_name(number), "Exception")
         ELSE detector_minimal("add_detector", number)
    /\ UNCHANGED <<pc, detector_groups, not_builder_vars>>

NextBuilderGroups ==
    \/ add_instrument
    \/ add_source
    \/ add_monitor
    \/ add_detector_minimal
    \/ add_detector

SpecBuilderGroups == InitBuilder /\ [][NextBuilderGroups]_vars

(* the dataset called name among the datasets written for a group *)
Named(g, name) == {t \in {g.transformations[i] : i \in 1..Len(g.transformations)} : t.name = name}

(* C2: for a detector with both a location and an orientation the rotation
   dataset has depends_on '.', the translation dataset depends on the rotation
   dataset and the group's depends_on names the translation dataset; for a
   detector with only a location a single translation dataset with depends_on
   '.' is written and the group's depends_on names it. *)
C2_RotationIsRootOfChain ==
    \A i \in 1..Len(detector_groups) :
        LET g == detector_groups[i]
        IN  /\ (g.detector.has_location /\ g.detector.has_orientation) =>
                   /\ \E r \in Named(g, "orientation"), t \in Named(g, "location") :
                        /\ r.transformation_type = "rotation"
                        /\ t.transformation_type = "translation"
                        /\ r.depends_on = "."
                        /\ t.depends_on = r.name
                        /\ g.depends_on = t.name
            /\ (g.detector.has_location /\ ~g.detector.has_orientation) =>
                   /\ Len(g.transformations) = 1
                   /\ g.transformations[1].transformation_type = "translation"
                   /\ g.transformations[1].depends_on = "."
                   /\ g.depends_on = g.transformations[1].name

----------------------------------------------------------------------------
(* The IDF parser: idfparser.py.  The instrument definition is a record
   [types, components, idlists]: types is the sequence of <type> elements
   [name, is, components, ...], components the <component> elements directly
   under the root, idlists the <idlist> elements.  A <component> element is
   [type, name, has_idlist, idlist, children]; a name of "" is an absent
   attribute.  A child is [tag, vector, axis_number, start, stop, num]: a
   <location> carries vector, a <locations> carries the rest.  The default
   coordinate system is declared, so get_nexus_coordinates returns its argument. *)

(* None, as the value of a vector *)
NoneVec == <<>>

SeqToSet(s) == {s[i] : i \in 1..Len(s)}

(* np.linspace, on values for which the steps are whole *)
linspace(start, stop, num) ==
    [k \in 1..num |-> IF num = 1 THEN start ELSE start + ((k - 1) * (stop - start)) \div (num - 1)]

(* __get_vector: None when the element has no coordinate attribute *)
get_vector(xml_point) == xml_point.vector

(* the vectors one child element of a component contributes *)
child_offsets(child) ==
    IF child.tag = "location" THEN <<get_vector(child)>>
    ELSE IF child.tag = "locations" /\ child.axis_number \in 1..3
    THEN LET values == linspace(child.start, child.stop, child.num)
         IN  [k \in 1..child.num |-> [ZeroVec EXCEPT ![child.axis_number] = values[k]]]
    ELSE <<>>

RECURSIVE detector_offsets_from(_, _)
detector_offsets_from(children, i) ==
    IF i > Len(children) THEN <<>>
    ELSE child_offsets(children[i]) \o detector_offsets_from(children, i + 1)

(* __get_detector_offsets *)
get_detector_offsets(xml_type) == detector_offsets_from(xml_type.children, 1)

(* the ids one <id> element stands for *)
id_values(xml_id) == [k \in 1..(xml_id.end - xml_id.start + 1) |-> xml_id.start + k - 1]

RECURSIVE ids_from(_, _)
ids_from(ids, i) ==
    IF i > Len(ids) THEN <<>> ELSE id_values(ids[i]) \o ids_from(ids, i + 1)

RECURSIVE id_list_from(_, _, _)
id_list_from(the_idf, idname, i) ==
    IF i > Len(the_idf.idlists) THEN <<>>
    ELSE (IF the_idf.idlists[i].idname = idname THEN ids_from(the_idf.idlists[i].ids, 1) ELSE <<>>)
         \o id_list_from(the_idf, idname, i + 1)

(* __get_id_list *)
get_id_list(the_idf, idname) == id_list_from(the_idf, idname, 1)

(* uuid.uuid4(): the n-th value drawn *)
UuidNames == <<"uuid-1", "uuid-2", "uuid-3", "uuid-4">>

(* the <component> elements __collect_detector_components looks through, in
   the order of its two loops, each with the type it is found in *)
RECURSIVE type_component_elements(_, _)
type_component_elements(the_idf, t) ==
    IF t > Len(the_idf.types) THEN <<>>
    ELSE [c \in 1..Len(the_idf.types[t].components) |->
             [in_type |-> TRUE, name |-> the_idf.types[t].name, elem |-> the_idf.types[t].components[c]]]
         \o type_component_elements(the_idf, t + 1)

component_elements(the_idf) ==
    type_component_elements(the_idf, 1)
    \o [c \in 1..Len(the_idf.components) |->
           [in_type |-> FALSE, name |-> the_idf.components[c].name, elem |-> the_idf.components[c]]]

(* the index of the first component called name, 0 when there is none: next(..., None) *)
component_index(comps, name) ==
    IF \E i \in 1..Len(comps) : comps[i].name = name
    THEN CHOOSE i \in 1..Len(comps) :
             /\ comps[i].name = name
             /\ \A j \in 1..(i - 1) : comps[j].name # name
    ELSE 0

(* __collect_detector_components and __append_component; st is the state the
   two share: [components, searched_already, uuids] *)
RECURSIVE collect_detector_components(_, _, _)
RECURSIVE collect_loop(_, _, _, _)
RECURSIVE append_component(_, _, _, _, _)

collect_detector_components(the_idf, st, search_type) ==
    IF search_type \in SeqToSet(st.searched_already) THEN st
    ELSE collect_loop(the_idf, [st EXCEPT !.searched_already = Append(@, search_type)], search_type, 1)

collect_loop(the_idf, st, search_type, i) ==
    LET elements == component_elements(the_idf)
    IN  IF i > Len(elements) THEN st
        ELSE IF elements[i].elem.type # search_type
        THEN collect_loop(the_idf, st, search_type, i + 1)
        ELSE IF ~elements[i].in_type /\ elements[i].name = ""
        THEN collect_loop(the_idf,
                 append_component(the_idf, UuidNames[st.uuids + 1], elements[i].elem,
                                  [st EXCEPT !.uuids = @ + 1], search_type),
                 search_type, i + 1)
        ELSE collect_loop(the_idf,
                 append_component(the_idf, elements[i].name, elements[i].elem, st, search_type),
                 search_type, i + 1)

append_component(the_idf, name, xml_component, st, search_type) ==
    LET offsets == get_detector_offsets(xml_component)
        c == component_index(st.components, name)
        appended ==
            IF c # 0
            THEN [st.components EXCEPT
                     ![c].sub_components = Append(@, search_type),
                     ![c].idlist_kind = IF xml_component.has_idlist THEN "name" ELSE @,
                     ![c].idlist_name = IF xml_component.has_idlist THEN xml_component.idlist ELSE @,
                     ![c].locations = Append(@, offsets)]
            ELSE Append(st.components,
                     [name |-> name, sub_components |-> <<search_type>>, locations |-> <<offsets>>,
                      idlist_kind |-> IF xml_component.has_idlist THEN "list" ELSE "absent",
                      idlist |-> IF xml_component.has_idlist
                                 THEN get_id_list(the_idf, xml_component.idlist) ELSE <<>>,
                      idlist_name |-> "",
                      pixels |-> <<>>, has_offsets |-> FALSE, offsets |-> <<>>,
                      pixel |-> "", location |-> NoneVec])
    IN  collect_detector_components(the_idf, [st EXCEPT !.components = appended], name)

(* the first child of the type with the tag, as find does: whether there is one *)
find_child(xml_type, tag) == \E k \in 1..Len(xml_type.shape_children) : xml_type.shape_children[k] = tag

(* __get_shape: the 'shape' key of the dictionary __parse_cuboid or
   __parse_cylinder returns; "None" when the function falls off its end *)
get_shape(xml_type) ==
    LET cuboid == find_child(xml_type, "cuboid")
        cylinder == find_child(xml_type, "cylinder")
    IN  IF cuboid THEN [raised |-> "", shape |-> "cuboid"]
        ELSE IF cylinder THEN [raised |-> "", shape |-> "cylinder"]
        ELSE IF Len(xml_type.shape_children) + Len(xml_type.components) # 0
        THEN [raised |-> "Exception", shape |-> ""]
        ELSE [raised |-> "", shape |-> "None"]

(* __get_pixel_names_and_shapes: the pixels list, up to the first type whose
   shape raises *)
RECURSIVE get_pixel_names_and_shapes_from(_, _)
get_pixel_names_and_shapes_from(the_idf, t) ==
    IF t > Len(the_idf.types) THEN [raised |-> "", pixels |-> <<>>]
    ELSE IF the_idf.types[t].is # "detector" THEN get_pixel_names_and_shapes_from(the_idf, t + 1)
    ELSE IF get_shape(the_idf.types[t]).raised # ""
    THEN [raised |-> get_shape(the_idf.types[t]).raised, pixels |-> <<>>]
    ELSE LET rest == get_pixel_names_and_shapes_from(the_idf, t + 1)
         IN  [raised |-> rest.raised,
              pixels |-> IF rest.raised # "" THEN <<>>
                         ELSE <<[name |-> the_idf.types[t].name,
                                 shape |-> get_shape(the_idf.types[t]).shape]>> \o rest.pixels]

get_pixel_names_and_shapes(the_idf) == get_pixel_names_and_shapes_from(the_idf, 1)

(* __get_pixel_names_and_shapes: the names *)
RECURSIVE pixel_names_from(_, _)
pixel_names_from(the_idf, t) ==
    IF t > Len(the_idf.types) THEN <<>>
    ELSE (IF the_idf.types[t].is = "detector" THEN <<the_idf.types[t].name>> ELSE <<>>)
         \o pixel_names_from(the_idf, t + 1)

get_pixel_names(the_idf) == pixel_names_from(the_idf, 1)

(* the loop over pixels at the head of get_detectors *)
RECURSIVE collect_for_pixels(_, _, _, _)
collect_for_pixels(the_idf, pixels, st, i) ==
    IF i > Len(pixels) THEN st
    ELSE collect_for_pixels(the_idf, pixels,
             collect_detector_components(the_idf, [st EXCEPT !.searched_already = <<>>], pixels[i]),
             i + 1)

(* __find_top_level_detector_names *)
find_top_level_detector_names(comps) ==
    {comps[i].name : i \in 1..Len(comps)}
    \ UNION {SeqToSet(comps[i].sub_components) : i \in 1..Len(comps)}

(* the merge that leaves the sub-component the idlist it was collected with *)
fix_top_level_component_keeping_idlist(st, i) ==
    LET component == st.components[i]
        subcomponent_name == component.sub_components[1]
        sub == component_index(st.components, subcomponent_name)
        names == (st.top_level_detector_names \cup {subcomponent_name}) \ {component.name}
    IN  IF component.name \notin st.top_level_detector_names THEN st
        ELSE IF Len(component.locations[1]) = 0 THEN [st EXCEPT !.raised = "IndexError"]
        ELSE IF component.locations[1][1] # NoneVec THEN st
        ELSE IF Len(component.sub_components) # 1 THEN [st EXCEPT !.raised = "Exception"]
        ELSE IF sub = 0
        THEN [st EXCEPT !.top_level_detector_names = names, !.raised = "TypeError"]
        ELSE IF Len(st.components[sub].locations[1]) = 0
        THEN [st EXCEPT !.top_level_detector_names = names, !.raised = "IndexError"]
        ELSE [st EXCEPT
                 !.top_level_detector_names = names,
                 !.delete_components = @ \cup {component.name},
                 !.components[sub].locations[1][1] = IF @ = NoneVec THEN ZeroVec ELSE @]

(* one turn of the loop of __fix_top_level_components, for components[i];
   st is [components, top_level_detector_names, delete_components, raised] *)
fix_top_level_component(st, i) ==
    LET component == st.components[i]
        subcomponent_name == component.sub_components[1]
        sub == component_index(st.components, subcomponent_name)
        names == (st.top_level_detector_names \cup {subcomponent_name}) \ {component.name}
    IN  IF component.name \notin st.top_level_detector_names THEN st
        ELSE IF Len(component.locations[1]) = 0 THEN [st EXCEPT !.raised = "IndexError"]
        ELSE IF component.locations[1][1] # NoneVec THEN st
        ELSE IF Len(component.sub_components) # 1 THEN [st EXCEPT !.raised = "Exception"]
        ELSE IF component.idlist_kind = "absent"
        THEN [st EXCEPT !.top_level_detector_names = names, !.raised = "KeyError"]
        ELSE IF sub = 0
        THEN [st EXCEPT !.top_level_detector_names = names, !.raised = "TypeError"]
        ELSE IF Len(st.components[sub].locations[1]) = 0
        THEN [st EXCEPT !.top_level_detector_names = names, !.raised = "IndexError"]
        ELSE [st EXCEPT
                 !.top_level_detector_names = names,
                 !.delete_components = @ \cup {component.name},
                 !.components[sub].idlist_kind = component.idlist_kind,
                 !.components[sub].idlist = component.idlist,
                 !.components[sub].idlist_name = component.idlist_name,
                 !.components[sub].locations[1][1] = IF @ = NoneVec THEN ZeroVec ELSE @]

RECURSIVE fix_loop(_, _)
fix_loop(st, i) ==
    IF i > Len(st.components) \/ st.raised # "" THEN st
    ELSE fix_loop(fix_top_level_component(st, i), i + 1)

(* __fix_top_level_components *)
fix_top_level_components(comps, names) ==
    LET st == fix_loop([components |-> comps, top_level_detector_names |-> names,
                        delete_components |-> {}, raised |-> ""], 1)
        Kept(component) == component.name \notin st.delete_components
    IN  [st EXCEPT !.components = IF st.raised = "" THEN SelectSeq(@, Kept) ELSE @]

(* old_offsets + np.expand_dims(new_offset, 1).T *)
translate_offsets(old_offsets, new_offset) ==
    [k \in 1..Len(old_offsets) |-> VecAdd(old_offsets[k], new_offset)]

(* the offsets listed sub-component-offset-major: each old offset under every new one *)
RECURSIVE calculate_new_offsets_old_offset_major(_, _, _)
calculate_new_offsets_old_offset_major(old_offsets, new_offsets, i) ==
    IF i > Len(old_offsets) THEN <<>>
    ELSE [k \in 1..Len(new_offsets) |-> VecAdd(old_offsets[i], new_offsets[k])]
         \o calculate_new_offsets_old_offset_major(old_offsets, new_offsets, i + 1)

(* __calculate_new_offsets *)
RECURSIVE calculate_new_offsets(_, _, _)
calculate_new_offsets(old_offsets, new_offsets, i) ==
    IF i > Len(new_offsets) THEN <<>>
    ELSE translate_offsets(old_offsets, new_offsets[i])
         \o calculate_new_offsets(old_offsets, new_offsets, i + 1)

(* whether __calculate_new_offsets raises: a location that is None, or no old offsets *)
calculate_new_offsets_raises(old_offsets, new_offsets) ==
    /\ Len(new_offsets) > 0
    /\ \/ Len(old_offsets) = 0
       \/ \E i \in 1..Len(new_offsets) : new_offsets[i] = NoneVec

(* the offset lists and the pixel names of the sub-components of a component *)
sub_component_offsets(comps, component, pixel_names) ==
    [k \in 1..Len(component.sub_components) |->
        IF component.sub_components[k] \in pixel_names THEN <<ZeroVec>>
        ELSE comps[component_index(comps, component.sub_components[k])].offsets]

RECURSIVE sub_component_pixels(_, _, _, _)
sub_component_pixels(comps, component, pixel_names, k) ==
    IF k > Len(component.sub_components) THEN <<>>
    ELSE (IF component.sub_components[k] \in pixel_names THEN <<component.sub_components[k]>>
          ELSE comps[component_index(comps, component.sub_components[k])].pixels)
         \o sub_component_pixels(comps, component, pixel_names, k + 1)

(* itertools.chain.from_iterable *)
RECURSIVE chain_from_iterable(_, _)
chain_from_iterable(lists, k) ==
    IF k > Len(lists) THEN <<>> ELSE lists[k] \o chain_from_iterable(lists, k + 1)

(* __all_elements_equal *)
all_elements_equal(input_list) == \A k \in 1..Len(input_list) : input_list[k] = input_list[1]

(* the offsets of a component that is not a top level component *)
RECURSIVE offsets_over_sub_components(_, _, _)
offsets_over_sub_components(offset_lists, locations, k) ==
    IF k > Len(offset_lists) THEN <<>>
    ELSE calculate_new_offsets(offset_lists[k], locations[k], 1)
         \o offsets_over_sub_components(offset_lists, locations, k + 1)

(* the body of the for loop of __collate_detector_info for components[i];
   st is [components, detectors, known, raised] *)
collate_component(st, i, pixel_names, top_names) ==
    LET component == st.components[i]
        offset_lists == sub_component_offsets(st.components, component, pixel_names)
        pixels == component.pixels \o sub_component_pixels(st.components, component, pixel_names, 1)
    IN  IF ~(SeqToSet(component.sub_components) \subseteq st.known) THEN st
        ELSE IF ~all_elements_equal(pixels)
        THEN [st EXCEPT !.components[i].pixels = pixels, !.raised = "NotImplementedError"]
        ELSE IF component.name \in top_names
        THEN IF Len(component.locations[1]) = 0
             THEN [st EXCEPT !.components[i].pixels = pixels, !.raised = "IndexError"]
             ELSE [st EXCEPT
                      !.components[i].pixels = pixels,
                      !.components[i].offsets = chain_from_iterable(offset_lists, 1),
                      !.components[i].has_offsets = TRUE,
                      !.components[i].pixel = pixels[1],
                      !.components[i].location = component.locations[1][1],
                      !.detectors = Append(@, i),
                      !.known = @ \cup {component.name}]
        ELSE IF \E k \in 1..Len(offset_lists) :
                    calculate_new_offsets_raises(offset_lists[k], component.locations[k])
        THEN [st EXCEPT !.components[i].pixels = pixels, !.raised = "ValueError"]
        ELSE [st EXCEPT
                 !.components[i].pixels = pixels,
                 !.components[i].offsets =
                     offsets_over_sub_components(offset_lists, component.locations, 1),
                 !.components[i].has_offsets = TRUE,
                 !.known = @ \cup {component.name}]

(* get_detectors, up to the call of __collate_detector_info and the set-up of
   its while loop *)
get_detectors ==
    /\ pc = "get_detectors"
    /\ LET found == get_pixel_names_and_shapes(idf)
           pixels == get_pixel_names(idf)
           collected == collect_for_pixels(idf, pixels,
                            [components |-> <<>>, searched_already |-> <<>>, uuids |-> 0], 1)
           fixed == fix_top_level_components(collected.components,
                        find_top_level_detector_names(collected.components))
       IN  IF found.raised # ""
           THEN /\ idf_raised' = found.raised
                /\ pc' = "idf_raised"
                /\ UNCHANGED <<components, top_level_detector_names,
                               component_names_offsets_known, pixels_and_shapes>>
           ELSE /\ pixels_and_shapes' = found.pixels
                /\ components' = fixed.components
                /\ top_level_detector_names' = fixed.top_level_detector_names
                /\ component_names_offsets_known' = SeqToSet(pixels)
                /\ idf_raised' = fixed.raised
                /\ pc' = IF fixed.raised = "" THEN "collate_while" ELSE "idf_raised"
    /\ UNCHANGED <<idf, comp_index, detectors, rect_detectors, not_idf_vars>>

(* the test of the while loop of __collate_detector_info; when it fails
   get_detectors returns and get_rectangular_detectors is called *)
collate_while ==
    /\ pc = "collate_while"
    /\ LET all_component_names ==
               {components[i].name : i \in 1..Len(components)} \cup SeqToSet(get_pixel_names(idf))
       IN  IF component_names_offsets_known # all_component_names
           THEN pc' = "collate_for" /\ comp_index' = 1
           ELSE pc' = "get_rectangular_detectors" /\ comp_index' = 0
    /\ UNCHANGED <<idf, components, top_level_detector_names, component_names_offsets_known,
                   detectors, rect_detectors, idf_raised, pixels_and_shapes, not_idf_vars>>

(* one turn of the for loop over components *)
collate_for ==
    /\ pc = "collate_for"
    /\ LET st == collate_component(
                     [components |-> components, detectors |-> detectors,
                      known |-> component_names_offsets_known, raised |-> ""],
                     comp_index, SeqToSet(get_pixel_names(idf)), top_level_detector_names)
       IN  /\ components' = st.components
           /\ detectors' = st.detectors
           /\ component_names_offsets_known' = st.known
           /\ idf_raised' = st.raised
           /\ pc' = IF st.raised # "" THEN "idf_raised"
                    ELSE IF comp_index = Len(components) THEN "collate_while"
                    ELSE "collate_for"
           /\ comp_index' = IF st.raised = "" /\ comp_index < Len(components)
                            THEN comp_index + 1 ELSE comp_index
    /\ UNCHANGED <<idf, top_level_detector_names, rect_detectors, pixels_and_shapes,
                   not_idf_vars>>

(* __get_1d_pixel_offsets *)
get_1d_pixel_offsets(step, pixels, start) == linspace(start, start + (step * (pixels - 1)), pixels)

(* one axis of np.mgrid[0:n * step:step] *)
mgrid_axis(n, step) == [k \in 1..n |-> (k - 1) * step]

(* __get_rectangular_detector_ids: a grid of x_pixels rows of y_pixels ids *)
get_rectangular_detector_ids(component, x_pixels, y_pixels) ==
    LET x_1d == IF component.idfillbyfirst = "x" THEN mgrid_axis(x_pixels, component.idstep)
                ELSE mgrid_axis(x_pixels, component.idstepbyrow)
        y_1d == IF component.idfillbyfirst = "x" THEN mgrid_axis(y_pixels, component.idstepbyrow)
                ELSE mgrid_axis(y_pixels, component.idstep)
    IN  [a \in 1..x_pixels |-> [b \in 1..y_pixels |-> (x_1d[a] + y_1d[b]) + component.idstart]]

(* the first <location> child of a component, 0 when there is none: find *)
find_location(component) ==
    IF \E k \in 1..Len(component.children) : component.children[k].tag = "location"
    THEN CHOOSE k \in 1..Len(component.children) :
             /\ component.children[k].tag = "location"
             /\ \A j \in 1..(k - 1) : component.children[j].tag # "location"
    ELSE 0

(* the record get_rectangular_detectors yields for one component of a bank type *)
det_bank_info(xml_type, component) ==
    LET x_pixel_offset_1d == get_1d_pixel_offsets(xml_type.xstep, xml_type.xpixels, xml_type.xstart)
        y_pixel_offset_1d == get_1d_pixel_offsets(xml_type.ystep, xml_type.ypixels, xml_type.ystart)
        \* np.meshgrid: both arrays have len(y) rows of len(x) columns
        x_pixel_offset == [r \in 1..Len(y_pixel_offset_1d) |-> x_pixel_offset_1d]
        y_pixel_offset == [r \in 1..Len(y_pixel_offset_1d) |->
                              [c \in 1..Len(x_pixel_offset_1d) |-> y_pixel_offset_1d[r]]]
        offsets == [r \in 1..Len(x_pixel_offset) |-> [c \in 1..Len(x_pixel_offset[r]) |->
                       <<x_pixel_offset[r][c], y_pixel_offset[r][c], 0>>]]
        location == component.children[find_location(component)]
    IN  [name |-> IF location.name = "" THEN xml_type.name ELSE location.name,
         pixel |-> xml_type.type,
         offsets |-> offsets,
         idlist |-> get_rectangular_detector_ids(component, Len(x_pixel_offset), Len(y_pixel_offset)),
         sub_components |-> <<xml_type.name>>,
         location |-> get_vector(location)]

(* the records yielded for the types from the t-th on and, within the t-th,
   the components from the c-th on *)
RECURSIVE rectangular_detectors_from(_, _, _)
rectangular_detectors_from(the_idf, t, c) ==
    IF t > Len(the_idf.types) THEN <<>>
    ELSE IF the_idf.types[t].is # "rectangular_detector" \/ c > Len(the_idf.components)
    THEN rectangular_detectors_from(the_idf, t + 1, 1)
    ELSE (IF the_idf.components[c].type = the_idf.types[t].name
          THEN <<det_bank_info(the_idf.types[t], the_idf.components[c])>> ELSE <<>>)
         \o rectangular_detectors_from(the_idf, t, c + 1)

(* whether get_rectangular_detectors raises: a bank component without a <location> *)
rectangular_detectors_raise(the_idf) ==
    \E t \in 1..Len(the_idf.types), c \in 1..Len(the_idf.components) :
        /\ the_idf.types[t].is = "rectangular_detector"
        /\ the_idf.components[c].type = the_idf.types[t].name
        /\ find_location(the_idf.components[c]) = 0

(* get_rectangular_detectors, run to the end of the generator *)
get_rectangular_detectors ==
    /\ pc = "get_rectangular_detectors"
    /\ IF rectangular_detectors_raise(idf)
       THEN /\ idf_raised' = "AttributeError"
            /\ pc' = "idf_raised"
            /\ UNCHANGED rect_detectors
       ELSE /\ rect_detectors' = rectangular_detectors_from(idf, 1, 1)
            /\ pc' = "idf_done"
            /\ UNCHANGED idf_raised
    /\ UNCHANGED <<idf, components, top_level_detector_names, component_names_offsets_known,
                   comp_index, detectors, pixels_and_shapes, not_idf_vars>>

NextIdf ==
    \/ get_detectors
    \/ collate_while
    \/ collate_for
    \/ get_rectangular_detectors

(* The instrument definitions parsed *)

Location(vector, name) ==
    [tag |-> "location", vector |-> vector, name |-> name,
     axis_number |-> 0, start |-> 0, stop |-> 0, num |-> 0]

Locations(axis_number, start, stop, num) ==
    [tag |-> "locations", vector |-> NoneVec, name |-> "",
     axis_number |-> axis_number, start |-> start, stop |-> stop, num |-> num]

ComponentElement(type, name, has_idlist, idlist, children) ==
    [type |-> type, name |-> name, has_idlist |-> has_idlist, idlist |-> idlist,
     children |-> children,
     idstart |-> 0, idstep |-> 0, idfillbyfirst |-> "", idstepbyrow |-> 0]

TypeElement(name, is, type_components) ==
    [name |-> name, is |-> is, components |-> type_components, type |-> "",
     shape_children |-> <<>>,
     xpixels |-> 0, xstart |-> 0, xstep |-> 0, ypixels |-> 0, ystart |-> 0, ystep |-> 0]

(* a type with the child elements that are not components, such as its shape *)
ShapedType(name, is, shape_children) ==
    [TypeElement(name, is, <<>>) EXCEPT !.shape_children = shape_children]

PixelType == ShapedType("pixel", "detector", <<"cuboid">>)

(* the spacing of the locations declared at a level of the hierarchy *)
LevelStep == <<1, 10, 100>>

(* n locations along the axis of a level, as <location> elements or as one
   <locations> element *)
LevelChildren(level, n, ranged) ==
    IF ranged
    THEN <<Locations(level, LevelStep[level], n * LevelStep[level], n)>>
    ELSE [k \in 1..n |-> Location([ZeroVec EXCEPT ![level] = k * LevelStep[level]], "")]

RangeIdList(idname, n) == [idname |-> idname, ids |-> <<[start |-> 1, end |-> n]>>]

(* a pixel in a tube, the tube placed in the instrument *)
TwoLevelIdfs ==
    {[types |-> <<PixelType,
                  TypeElement("tube", "",
                      <<ComponentElement("pixel", "", FALSE, "", LevelChildren(1, n1, ranged))>>)>>,
      components |-> <<ComponentElement("tube", name, TRUE, "ids", LevelChildren(3, n3, FALSE))>>,
      idlists |-> <<RangeIdList("ids", n1)>>] :
        n1 \in 1..MaxLocations, n3 \in 1..MaxLocations, ranged \in BOOLEAN, name \in {"", "detector-bank"}}

(* a pixel in a tube, the tube in a bank, the bank placed in the instrument *)
ThreeLevelIdfs ==
    {[types |-> <<PixelType,
                  TypeElement("tube", "",
                      <<ComponentElement("pixel", "", FALSE, "", LevelChildren(1, n1, ranged))>>),
                  TypeElement("bank", "",
                      <<ComponentElement("tube", "", FALSE, "", LevelChildren(2, n2, ~ranged))>>)>>,
      components |-> <<ComponentElement("bank", "detector-bank", TRUE, "ids", LevelChildren(3, n3, FALSE))>>,
      idlists |-> <<RangeIdList("ids", n1 * n2)>>] :
        n1 \in 1..MaxLocations, n2 \in 1..MaxLocations, n3 \in 1..MaxLocations, ranged \in BOOLEAN}

(* one or two panels of a rectangular detector type *)
RectangularComponent(name, idstart, idfillbyfirst, idstepbyrow) ==
    [ComponentElement("panel", "", FALSE, "", <<Location(<<0, 0, 5>>, name)>>) EXCEPT
        !.idstart = idstart, !.idstep = 1, !.idfillbyfirst = idfillbyfirst,
        !.idstepbyrow = idstepbyrow]

RectangularIdfs ==
    {[types |-> <<PixelType,
                  [TypeElement("panel", "rectangular_detector", <<>>) EXCEPT
                      !.type = "pixel", !.xpixels = nx, !.xstart = 0 - 1, !.xstep = 2,
                      !.ypixels = ny, !.ystart = 0, !.ystep = 3]>>,
      components |-> IF two
                     THEN <<RectangularComponent("", 0, fill, nx),
                            RectangularComponent("rear", 100, fill, ny)>>
                     ELSE <<RectangularComponent("front", 0, fill, nx)>>,
      idlists |-> <<>>] :
        nx \in 1..MaxRectPixels, ny \in 1..MaxRectPixels, fill \in {"x", "y"}, two \in BOOLEAN}

(* a tube whose component names an idlist the instrument definition does not
   contain: there is no idlist element, or only one of another name *)
DanglingIdListIdfs ==
    {[types |-> <<PixelType,
                  TypeElement("tube", "",
                      <<ComponentElement("pixel", "", FALSE, "", LevelChildren(1, n1, FALSE))>>)>>,
      components |-> <<ComponentElement("tube", "detector-bank", TRUE, "ids", LevelChildren(3, 1, FALSE))>>,
      idlists |-> idlists] :
        n1 \in 1..MaxLocations, idlists \in {<<>>, <<RangeIdList("monitor-ids", 1)>>}}

(* a tube of pixels whose type element is as given *)
TubeIdf(pixel_type, n1) ==
    [types |-> <<pixel_type,
                 TypeElement("tube", "",
                     <<ComponentElement("pixel", "", FALSE, "", LevelChildren(1, n1, FALSE))>>)>>,
     components |-> <<ComponentElement("tube", "detector-bank", TRUE, "ids", LevelChildren(3, 1, FALSE))>>,
     idlists |-> <<RangeIdList("ids", n1)>>]

(* no type is marked is="detector" *)
NoPixelIdfs ==
    {TubeIdf(ShapedType("pixel", is, <<"cuboid">>), n1) : is \in {"", "monitor"}, n1 \in 1..MaxLocations}

(* the child elements of the pixel type: a cylinder, a cuboid and a cylinder,
   a shape that is neither, a shape that is neither beside a cylinder, none *)
PixelShapeChildren ==
    {<<"cylinder">>, <<"cylinder", "cuboid">>, <<"sphere">>, <<"sphere", "cylinder">>, <<>>}

PixelShapeIdfs ==
    {TubeIdf(ShapedType("pixel", "detector", shape_children), n1) :
        shape_children \in PixelShapeChildren, n1 \in 1..MaxLocations}

(* a bank of tubes placed by a top level component whose <location> has no
   coordinate; the component of the bank type names an idlist of its own or none *)
WrapperIdfs ==
    {[types |-> <<PixelType,
                  TypeElement("tube", "",
                      <<ComponentElement("pixel", "", FALSE, "", LevelChildren(1, n1, FALSE))>>),
                  TypeElement("bank", "",
                      <<ComponentElement("tube", "", sub_has_idlist, "tube-ids",
                                         LevelChildren(2, n2, FALSE))>>)>>,
      components |-> <<ComponentElement("bank", "detector-bank", TRUE, "ids", <<Location(NoneVec, "")>>)>>,
      idlists |-> <<RangeIdList("ids", n1 * n2),
                    [idname |-> "tube-ids", ids |-> <<[start |-> 101, end |-> 100 + (n1 * n2)]>>]>>] :
        n1 \in 1..MaxLocations, n2 \in 1..MaxLocations, sub_has_idlist \in BOOLEAN}

(* a malformed definition: the tube type holds a bank, the bank type holds a tube *)
CyclicIdfs ==
    {[types |-> <<PixelType,
                  TypeElement("tube", "",
                      <<ComponentElement("pixel", "", FALSE, "", LevelChildren(1, n1, FALSE)),
                        ComponentElement("bank", "", FALSE, "", LevelChildren(2, 1, FALSE))>>),
                  TypeElement("bank", "",
                      <<ComponentElement("tube", "", FALSE, "", LevelChildren(2, n2, FALSE))>>)>>,
      components |-> IF placed
                     THEN <<ComponentElement("bank", "detector-bank", TRUE, "ids", LevelChildren(3, 1, FALSE))>>
                     ELSE <<>>,
      idlists |-> <<RangeIdList("ids", n1 * n2)>>] :
        n1 \in 1..MaxLocations, n2 \in 1..MaxLocations, placed \in BOOLEAN}

(* a rear bank of two kinds of tube, declared before the second kind of tube,
   behind a front tube or alone: the bank cannot be resolved in the first pass
   over the components *)
MultiPassIdfs ==
    {[types |-> <<PixelType>>
                \o (IF has_front
                    THEN <<TypeElement("front-tube", "",
                             <<ComponentElement("pixel", "", FALSE, "", LevelChildren(1, n1, FALSE))>>)>>
                    ELSE <<>>)
                \o <<
                  TypeElement("rear-bank", "",
                      <<ComponentElement("short-tube", "", FALSE, "", LevelChildren(2, 1, FALSE)),
                        ComponentElement("long-tube", "", FALSE, "", LevelChildren(2, n2, FALSE))>>),
                  TypeElement("short-tube", "",
                      <<ComponentElement("pixel", "", FALSE, "", LevelChildren(1, 1, FALSE))>>),
                  TypeElement("long-tube", "",
                      <<ComponentElement("pixel", "", FALSE, "", LevelChildren(1, n1, FALSE))>>)>>,
      components |-> (IF has_front
                      THEN <<ComponentElement("front-tube", "front", TRUE, "ids", LevelChildren(3, 1, FALSE))>>
                      ELSE <<>>)
                     \o <<ComponentElement("rear-bank", "rear", TRUE, "ids", LevelChildren(3, 1, FALSE))>>,
      idlists |-> <<RangeIdList("ids", n1)>>] :
        n1 \in 1..MaxLocations, n2 \in 1..MaxLocations, has_front \in BOOLEAN}

IdfSet ==
    TwoLevelIdfs \cup ThreeLevelIdfs \cup RectangularIdfs \cup DanglingIdListIdfs
    \cup NoPixelIdfs \cup PixelShapeIdfs \cup WrapperIdfs \cup CyclicIdfs \cup MultiPassIdfs

InitIdf ==
    /\ pc = "get_detectors"
    /\ NotIdfIdle
    /\ idf \in IdfSet
    /\ components = <<>>
    /\ top_level_detector_names = {}
    /\ component_names_offsets_known = {}
    /\ comp_index = 0
    /\ detectors = <<>>
    /\ rect_detectors = <<>>
    /\ idf_raised = ""
    /\ pixels_and_shapes = <<>>

SpecIdf == InitIdf /\ [][NextIdf]_vars

(* __collate_detector_info runs in one thread: once its while loop is entered,
   a step of the loop that can be taken is taken *)
SpecIdfFair == SpecIdf /\ WF_vars(collate_while) /\ WF_vars(collate_for)

(* get_detectors has returned its list *)
GetDetectorsReturned == pc \in {"get_rectangular_detectors", "idf_done"}

(* the product of the numbers of locations the component elements from the
   i-th on declare; in a chain every component element is a level of the chain *)
RECURSIVE ProductOfLocations(_, _)
ProductOfLocations(elements, i) ==
    IF i > Len(elements) THEN 1
    ELSE Len(get_detector_offsets(elements[i].elem)) * ProductOfLocations(elements, i + 1)

(* C4: the number of offsets get_detectors resolves for a detector is the
   product of the numbers of locations declared at each level of the chain
   from the pixel type to the top level component, the top level included. *)
C4_OffsetCountIsProductOfAllLevels ==
    GetDetectorsReturned =>
        \A d \in 1..Len(detectors) :
            Len(components[detectors[d]].offsets) = ProductOfLocations(component_elements(idf), 1)

(* rows and columns of a grid *)
Shape(grid) == <<Len(grid), IF Len(grid) = 0 THEN 0 ELSE Len(grid[1])>>

(* C5: every record of get_detectors has as many ids as offsets, and every
   record of get_rectangular_detectors has an idlist grid of the shape of its
   offsets grid, also when xpixels and ypixels differ. *)
C5_OneIdPerOffset ==
    /\ GetDetectorsReturned =>
           \A d \in 1..Len(detectors) :
               /\ components[detectors[d]].idlist_kind = "list"
               /\ Len(components[detectors[d]].idlist) = Len(components[detectors[d]].offsets)
    /\ pc = "idf_done" =>
           \A d \in 1..Len(rect_detectors) :
               Shape(rect_detectors[d].idlist) = Shape(rect_detectors[d].offsets)

(* a component element names an idlist for which there is no idlist element *)
DanglingIdList ==
    \E e \in 1..Len(component_elements(idf)) :
        /\ component_elements(idf)[e].elem.has_idlist
        /\ \A l \in 1..Len(idf.idlists) :
               idf.idlists[l].idname # component_elements(idf)[e].elem.idlist

(* C16: when a detector component names an idlist for which the instrument
   definition has no idlist element, resolving the components fails, and no
   detector record with an id list is produced. *)
C16_DanglingIdListFails ==
    (idf # <<>> /\ DanglingIdList /\ pc # "get_detectors") =>
        /\ idf_raised # ""
        /\ \A c \in 1..Len(components) : components[c].idlist_kind = "absent"
        /\ detectors = <<>>

(* the types of the instrument definition marked is="detector" *)
DetectorTypes == {t \in 1..Len(idf.types) : idf.types[t].is = "detector"}

(* get_detectors has been called and has returned or raised *)
GetDetectorsCalled == idf # <<>> /\ pc # "get_detectors"

(* C17: get_detectors fails when the instrument definition has no type marked
   is="detector". *)
C17_NoPixelTypeFails ==
    (GetDetectorsCalled /\ DetectorTypes = {}) => idf_raised # ""

(* the type has a cuboid or a cylinder among its child elements *)
HasKnownShape(xml_type) == find_child(xml_type, "cuboid") \/ find_child(xml_type, "cylinder")

(* C18: every type marked is="detector" yields exactly one pixel shape, a
   cuboid or a cylinder; when a detector type has neither a cuboid nor a
   cylinder, with other child elements or with none, get_detectors fails. *)
C18_EveryPixelHasAKnownShapeOrFails ==
    GetDetectorsCalled =>
        /\ (\E t \in DetectorTypes : ~HasKnownShape(idf.types[t])) => idf_raised # ""
        /\ (\A t \in DetectorTypes : HasKnownShape(idf.types[t])) =>
               /\ Len(pixels_and_shapes) = Cardinality(DetectorTypes)
               /\ \A t \in DetectorTypes :
                      Cardinality({k \in 1..Len(pixels_and_shapes) :
                                      /\ pixels_and_shapes[k].name = idf.types[t].name
                                      /\ pixels_and_shapes[k].shape \in {"cuboid", "cylinder"}}) = 1

----------------------------------------------------------------------------
(* The reference frame: IDFParser.__get_default_coord_systems and
   coordinatetransformer.py.  An axis string such as '-x' is the record
   [negative |-> TRUE, letter |-> "x"].  An XML element is a record with the
   fields present (find did not return None) and children (its number of
   child elements) besides its attributes. *)

AxisLetters == <<"x", "y", "z">>

Axis(negative, letter) == [negative |-> negative, letter |-> letter]

is_negative(direction) == direction.negative

flip_axis(nexus_a) == [nexus_a EXCEPT !.negative = ~@]

(* the truth value of an xml.etree element: it has child elements *)
ElementIsTrue(element) == element.present /\ element.children > 0

(* the right-handedness table of __get_default_coord_systems; "" when no row matches *)
nexus_x_table(unsigned_yz_list) ==
    IF unsigned_yz_list = <<"y", "z">> THEN Axis(FALSE, "x")
    ELSE IF unsigned_yz_list = <<"z", "y">> THEN Axis(TRUE, "x")
    ELSE IF unsigned_yz_list = <<"x", "y">> THEN Axis(TRUE, "z")
    ELSE IF unsigned_yz_list = <<"y", "x">> THEN Axis(FALSE, "z")
    ELSE IF unsigned_yz_list = <<"x", "z">> THEN Axis(FALSE, "y")
    ELSE IF unsigned_yz_list = <<"z", "x">> THEN Axis(TRUE, "y")
    ELSE Axis(FALSE, "")

(* __get_default_coord_systems: the exception raised and the nexus_coords
   handed to CoordinateTransformer *)
get_default_coord_systems(xml_defaults) ==
    IF ~ElementIsTrue(xml_defaults)
    THEN [raised |-> "", nexus_coords |-> <<Axis(FALSE, "x"), Axis(FALSE, "y"), Axis(FALSE, "z")>>]
    ELSE IF ElementIsTrue(xml_defaults.location) /\ ~xml_defaults.location.zero_axis_is_z
    THEN [raised |-> "NotImplementedError", nexus_coords |-> <<>>]
    ELSE IF ~xml_defaults.along_beam.present \/ ~xml_defaults.pointing_up.present
    THEN [raised |-> "Exception", nexus_coords |-> <<>>]
    ELSE LET nexus_y == xml_defaults.pointing_up.axis
             nexus_z == xml_defaults.along_beam.axis
             handedness == IF ElementIsTrue(xml_defaults.handedness)
                           THEN xml_defaults.handedness.val ELSE "right"
             right_handed_x == nexus_x_table(<<nexus_y.letter, nexus_z.letter>>)
             signed_x == IF is_negative(nexus_y) # is_negative(nexus_z)
                         THEN flip_axis(right_handed_x) ELSE right_handed_x
             nexus_x == IF handedness = "left" THEN flip_axis(signed_x) ELSE signed_x
         IN  IF right_handed_x.letter = ""
             THEN [raised |-> "RuntimeError", nexus_coords |-> <<>>]
             ELSE [raised |-> "", nexus_coords |-> <<nexus_x, nexus_y, nexus_z>>]

(* list.index, counted from 1 *)
index(unsigned_nexus_coords, letter) ==
    CHOOSE i \in 1..Len(unsigned_nexus_coords) :
        /\ unsigned_nexus_coords[i] = letter
        /\ \A j \in 1..(i - 1) : unsigned_nexus_coords[j] # letter

(* CoordinateTransformer.__init__ *)
CoordinateTransformer(nexus_coords) ==
    LET unsigned_nexus_coords == [i \in 1..3 |-> nexus_coords[i].letter]
    IN  [nexus_coords |-> nexus_coords,
         default_coords |-> (nexus_coords = <<Axis(FALSE, "x"), Axis(FALSE, "y"), Axis(FALSE, "z")>>),
         nexus_coords_signs |-> [i \in 1..3 |-> IF is_negative(nexus_coords[i]) THEN 0 - 1 ELSE 1],
         nexus_coords_order |-> <<index(unsigned_nexus_coords, "x"),
                                  index(unsigned_nexus_coords, "y"),
                                  index(unsigned_nexus_coords, "z")>>]

(* CoordinateTransformer.get_nexus_coordinates *)
get_nexus_coordinates(self, vector) ==
    IF self.default_coords THEN vector
    ELSE LET multiplied == [i \in 1..3 |-> vector[i] * self.nexus_coords_signs[i]]
         IN  [i \in 1..3 |-> multiplied[self.nexus_coords_order[i]]]

(* IDFParser.__init__: __get_defaults builds self.transform *)
IDFParserInit ==
    /\ pc = "parser_init"
    /\ LET coord_systems == get_default_coord_systems(defaults)
       IN  IF coord_systems.raised # ""
           THEN /\ coord_raised' = coord_systems.raised
                /\ pc' = "parser_raised"
                /\ UNCHANGED self_transform
           ELSE /\ self_transform' = CoordinateTransformer(coord_systems.nexus_coords)
                /\ pc' = "parser_ready"
                /\ UNCHANGED coord_raised
    /\ UNCHANGED <<defaults, raw_vector, nexus_vector, not_coord_vars>>

(* the vectors found in the instrument definition *)
RawVectors ==
    {<<1, 0, 0>>, <<0, 1, 0>>, <<0, 0, 1>>, <<0 - 1, 0, 0>>, <<0, 0 - 1, 0>>, <<0, 0, 0 - 1>>,
     <<4, 1, 7>>}

(* a call of get_nexus_coordinates by __get_vector *)
GetNexusCoordinates ==
    /\ pc = "parser_ready"
    /\ \E vector \in RawVectors :
         /\ raw_vector' = vector
         /\ nexus_vector' = get_nexus_coordinates(self_transform, vector)
    /\ pc' = "transformed"
    /\ UNCHANGED <<defaults, self_transform, coord_raised, not_coord_vars>>

NextCoord ==
    \/ IDFParserInit
    \/ GetNexusCoordinates

(* the <defaults> elements parsed *)
NoElement == [present |-> FALSE, children |-> 0, val |-> "", zero_axis_is_z |-> TRUE]

SignedAxes == {Axis(negative, AxisLetters[i]) : negative \in BOOLEAN, i \in 1..3}

HandednessElements ==
    {NoElement} \cup {[present |-> TRUE, children |-> n, val |-> val, zero_axis_is_z |-> TRUE] :
                         n \in {0, 1}, val \in {"left", "right"}}

(* the <location> element of <defaults>: absent, or present with or without
   child elements, its values those of the z axis or others *)
DefaultLocationElements ==
    {NoElement} \cup {[present |-> TRUE, children |-> n, val |-> "", zero_axis_is_z |-> along_z] :
                         n \in {0, 1}, along_z \in BOOLEAN}

DefaultsElements ==
    {[present |-> TRUE, children |-> 3, location |-> l,
      along_beam |-> [present |-> TRUE, axis |-> beam],
      pointing_up |-> [present |-> TRUE, axis |-> up],
      handedness |-> h] :
        beam \in SignedAxes, up \in SignedAxes, h \in HandednessElements,
        l \in DefaultLocationElements}

NoDefaults ==
    [present |-> FALSE, children |-> 0, location |-> NoElement,
     along_beam |-> [present |-> FALSE, axis |-> Axis(FALSE, "z")],
     pointing_up |-> [present |-> FALSE, axis |-> Axis(FALSE, "y")],
     handedness |-> NoElement]

InitCoord ==
    /\ pc = "parser_init"
    /\ NotCoordIdle
    /\ defaults \in {d \in DefaultsElements : d.along_beam.axis.letter # d.pointing_up.axis.letter}
                    \cup {NoDefaults}
    /\ self_transform = <<>>
    /\ coord_raised = ""
    /\ raw_vector = <<>>
    /\ nexus_vector = <<>>

SpecCoord == InitCoord /\ [][NextCoord]_vars

(* C19: constructing the parser fails, and no CoordinateTransformer is built,
   whenever the defaults element has a location element whose values differ
   from r=0, t=0, p=0, ang=0, x=0, y=0, z=1. *)
C19_OtherZeroAxisIsRejected ==
    (/\ pc \in {"parser_ready", "transformed", "parser_raised"}
     /\ defaults.present
     /\ defaults.location.present
     /\ ~defaults.location.zero_axis_is_z) =>
        /\ coord_raised # ""
        /\ self_transform = <<>>

(* the position of an axis letter in a raw vector *)
LetterIndex(letter) == CHOOSE i \in 1..3 : AxisLetters[i] = letter

(* the raw unit vector along a declared axis *)
UnitAlong(axis) ==
    [i \in 1..3 |-> IF AxisLetters[i] # axis.letter THEN 0 ELSE IF axis.negative THEN 0 - 1 ELSE 1]

(* the signed raw component an axis string names *)
SignedComponent(vector, axis) ==
    IF axis.negative THEN 0 - vector[LetterIndex(axis.letter)] ELSE vector[LetterIndex(axis.letter)]

(* C6: for every declared reference frame get_nexus_coordinates maps the raw
   unit vector along the along-beam axis to (0,0,1) and the one along the
   pointing-up axis to (0,1,0); component i of the result is the signed raw
   component named by the i-th axis of the convention. *)
C6_BeamToZAndUpToY ==
    (pc = "transformed" /\ defaults.present) =>
        /\ raw_vector = UnitAlong(defaults.along_beam.axis) => nexus_vector = <<0, 0, 1>>
        /\ raw_vector = UnitAlong(defaults.pointing_up.axis) => nexus_vector = <<0, 1, 0>>
        /\ \A i \in 1..3 :
               nexus_vector[i] = SignedComponent(raw_vector, self_transform.nexus_coords[i])

(* up cross beam for two signed axes of different letters: the remaining
   letter, positive when (up, beam) is one of x-y, y-z, z-x and the signs
   agree, or when it is not and the signs differ *)
UpCrossBeam(up, beam) ==
    LET u == LetterIndex(up.letter)
        b == LetterIndex(beam.letter)
        cyclic == (b = (u % 3) + 1)
    IN  Axis(cyclic = (up.negative # beam.negative), AxisLetters[6 - u - b])

(* C7: the derived nexus x axis is up cross beam for a right-handed frame and
   its negation when the frame declares handedness left; the three axes name
   the three letters. *)
C7_ThirdAxisIsUpCrossBeam ==
    (pc \in {"parser_ready", "transformed"} /\ defaults.present) =>
        LET right_handed == UpCrossBeam(defaults.pointing_up.axis, defaults.along_beam.axis)
            declared_left == defaults.handedness.present /\ defaults.handedness.val = "left"
        IN  /\ self_transform.nexus_coords[1] =
                   IF declared_left THEN flip_axis(right_handed) ELSE right_handed
            /\ {self_transform.nexus_coords[i].letter : i \in 1..3} = {"x", "y", "z"}

----------------------------------------------------------------------------
(* OFF files: readwriteoff.py.  A file is its sequence of lines; a line is
   [kind, fields]: "OFF" is the line "OFF\n", "comment" a line starting with
   '#', "blank" the line "\n", "floats" a line of numbers printed with six
   decimals and "ints" a line of integers.  A coordinate in memory is a whole
   number of TenMillionths of the length unit; a number printed with six
   decimals is held as a whole number of millionths. *)

(* coordinates in memory are counted in 1/TenMillionths *)
TenMillionths == 10000000

Line(kind, fields) == [kind |-> kind, fields |-> fields]

(* "%f" % x: x to six decimals, as a number of millionths *)
format_f(x) == IF x % 10 < 5 THEN x \div 10 ELSE (x \div 10) + 1

(* astype(float) of the fields of a line *)
astype_float(line) ==
    IF line.kind = "floats" THEN [j \in 1..Len(line.fields) |-> 10 * line.fields[j]]
    ELSE [j \in 1..Len(line.fields) |-> TenMillionths * line.fields[j]]

(* line[0] == "#" or line == "\n" *)
is_comment_or_blank(line) == line.kind \in {"comment", "blank"}

(* winding_order[start:stop] for 0 <= start, by Python's slicing *)
slice(winding, start, stop) ==
    SubSeq(winding, start + 1, IF stop > Len(winding) THEN Len(winding) ELSE stop)

(* write_off_face: the line of one face *)
write_off_face(verts_in_face) == Line("ints", <<Len(verts_in_face)>> \o verts_in_face)

(* the loop of write_off_file over faces[1:], previous_index being carried *)
RECURSIVE write_faces_from(_, _, _, _)
write_faces_from(fcs, winding, i, previous_index) ==
    IF i > Len(fcs) THEN <<write_off_face(slice(winding, previous_index, Len(winding)))>>
    ELSE <<write_off_face(slice(winding, previous_index, fcs[i]))>>
         \o write_faces_from(fcs, winding, i + 1, fcs[i])

(* write_off_file: the lines written *)
write_off_file(verts, fcs, winding) ==
    LET number_of_vertices == Len(verts)
        number_of_faces == Len(fcs) - 1
        number_of_edges == 0
    IN  <<Line("OFF", <<>>), Line("comment", <<>>),
          Line("ints", <<number_of_vertices, number_of_faces, number_of_edges>>),
          Line("comment", <<>>)>>
        \o [i \in 1..Len(verts) |-> Line("floats", [j \in 1..3 |-> format_f(verts[i][j])])]
        \o <<Line("comment", <<>>)>>
        \o write_faces_from(fcs, winding, 2, 0)

(* the first line from the i-th on that is neither a comment nor blank; past
   the end of the file when there is none *)
RECURSIVE skip_comment_lines(_, _)
skip_comment_lines(lines, i) ==
    IF i > Len(lines) \/ ~is_comment_or_blank(lines[i]) THEN i
    ELSE skip_comment_lines(lines, i + 1)

(* the loop of parse_off_file that fills off_vertices: the rows read, the
   line after the last one read, and the exception raised *)
RECURSIVE read_vertices(_, _, _)
read_vertices(lines, i, remaining) ==
    IF remaining = 0 THEN [rows |-> <<>>, next |-> i, raised |-> ""]
    ELSE LET at == skip_comment_lines(lines, i)
         IN  IF at > Len(lines) THEN [rows |-> <<>>, next |-> at, raised |-> "IndexError"]
             ELSE IF Len(lines[at].fields) \notin {1, 3}
             THEN [rows |-> <<>>, next |-> at, raised |-> "ValueError"]
             ELSE LET values == astype_float(lines[at])
                      row == IF Len(values) = 1 THEN <<values[1], values[1], values[1]>> ELSE values
                      rest == read_vertices(lines, at + 1, remaining - 1)
                  IN  [rest EXCEPT !.rows = <<row>> \o @]

face_row_with_colour(fields) == fields

(* face_line.split()[: (int(face_line.split()[0]) + 1)] *)
face_row(fields) ==
    SubSeq(fields, 1, IF fields[1] + 1 > Len(fields) THEN Len(fields) ELSE fields[1] + 1)

(* the list comprehension of parse_off_file over faces_lines: the rows, and
   the exception raised *)
RECURSIVE read_faces(_, _)
read_faces(lines, i) ==
    IF i > Len(lines) THEN [rows |-> <<>>, raised |-> ""]
    ELSE IF lines[i].kind = "comment" THEN read_faces(lines, i + 1)
    ELSE IF lines[i].kind = "blank" THEN [rows |-> <<>>, raised |-> "IndexError"]
    ELSE IF lines[i].kind # "ints" THEN [rows |-> <<>>, raised |-> "ValueError"]
    ELSE LET rest == read_faces(lines, i + 1)
         IN  [rest EXCEPT !.rows = <<face_row(lines[i].fields)>> \o @]

(* parse_off_file: what is returned ("None" or "tuple") or the exception raised *)
parse_off_file(lines) ==
    LET failed(exception) ==
            [returned |-> "", off_vertices |-> <<>>, all_faces |-> <<>>, raised |-> exception]
        counts_at == skip_comment_lines(lines, 2)
    IN  IF Len(lines) = 0 \/ lines[1].kind # "OFF"
        THEN [returned |-> "None", off_vertices |-> <<>>, all_faces |-> <<>>, raised |-> ""]
        ELSE IF counts_at > Len(lines) THEN failed("IndexError")
        ELSE IF Len(lines[counts_at].fields) = 0 THEN failed("IndexError")
        ELSE IF lines[counts_at].kind # "ints" THEN failed("ValueError")
        ELSE LET number_of_vertices == lines[counts_at].fields[1]
                 vertex_rows == read_vertices(lines, counts_at + 1, number_of_vertices)
                 face_rows == read_faces(lines, vertex_rows.next)
             IN  IF vertex_rows.raised # "" THEN failed(vertex_rows.raised)
                 ELSE IF face_rows.raised # "" THEN failed(face_rows.raised)
                 ELSE [returned |-> "tuple", off_vertices |-> vertex_rows.rows,
                       all_faces |-> face_rows.rows, raised |-> ""]

next_index_by_row_length(current_index, face) == current_index + Len(face)

(* current_index += face[0] *)
next_index(current_index, face) == current_index + face[1]

(* create_off_face_vertex_map: the loop from the i-th face on *)
RECURSIVE face_vertex_map_from(_, _, _)
face_vertex_map_from(off_faces, i, current_index) ==
    IF i > Len(off_faces) THEN [winding_order |-> <<>>, faces |-> <<>>]
    ELSE LET rest == face_vertex_map_from(off_faces, i + 1, next_index(current_index, off_faces[i]))
         IN  [winding_order |-> Tail(off_faces[i]) \o rest.winding_order,
              faces |-> <<current_index>> \o rest.faces]

create_off_face_vertex_map(off_faces) == face_vertex_map_from(off_faces, 1, 0)

(* nothing returned yet *)
NotParsed == [returned |-> "", off_vertices |-> <<>>, all_faces |-> <<>>, raised |-> ""]

NotMapped == [winding_order |-> <<>>, faces |-> <<>>]

NoMesh == [present |-> FALSE, vertices |-> <<>>, faces |-> <<>>, winding_order |-> <<>>]

(* a call of write_off_file *)
WriteOffFile ==
    /\ pc = "write_off_file"
    /\ off_file' = write_off_file(off_mesh.vertices, off_mesh.faces, off_mesh.winding_order)
    /\ pc' = "parse_off_file"
    /\ UNCHANGED <<off_mesh, parsed, mapped, off_raised, not_off_vars>>

(* a call of parse_off_file on the file *)
ParseOffFile ==
    /\ pc = "parse_off_file"
    /\ LET result == parse_off_file(off_file)
       IN  /\ parsed' = result
           /\ off_raised' = result.raised
           /\ pc' = IF result.raised # "" THEN "off_raised"
                    ELSE IF result.returned = "None" THEN "off_not_parsed"
                    ELSE "create_off_face_vertex_map"
    /\ UNCHANGED <<off_mesh, off_file, mapped, not_off_vars>>

(* a call of create_off_face_vertex_map on the faces parsed *)
CreateOffFaceVertexMap ==
    /\ pc = "create_off_face_vertex_map"
    /\ mapped' = create_off_face_vertex_map(parsed.all_faces)
    /\ pc' = "off_done"
    /\ UNCHANGED <<off_mesh, off_file, parsed, off_raised, not_off_vars>>

NextOff ==
    \/ WriteOffFile
    \/ ParseOffFile
    \/ CreateOffFaceVertexMap

(* the vertices of the meshes written: whole lengths, lengths of six decimals,
   and lengths with a seventh decimal *)
OffVertex(i, precision) ==
    IF precision = 0 THEN Scale(SampleVertex(i), TenMillionths)
    ELSE IF precision = 6 THEN <<(i * TenMillionths) + 10, 2500000, 0 - 30>>
    ELSE <<(10 * i) + 3, 27, 0 - 13>>

OffMeshes ==
    {[present |-> TRUE,
      vertices |-> [i \in 1..Len(m.vertices) |-> OffVertex(i - 1, precision)],
      faces |-> m.faces, winding_order |-> m.winding_order] :
        m \in Meshes, precision \in {0, 6, 7}}

(* OFF texts from elsewhere: V vertices and F faces, with or without comment
   and blank lines among the lines, with or without colour values after the
   vertex indices of a face *)
OffText(V, F, commented, coloured) ==
    LET comment == IF commented THEN <<Line("comment", <<>>)>> ELSE <<>>
        blank == IF commented THEN <<Line("blank", <<>>)>> ELSE <<>>
        vertex_line(i) == <<Line("floats", <<i * 1000000, 500000, 0 - 250000>>)>>
        face_line(k) ==
            <<Line("ints", (IF k % 2 = 1 THEN <<3, 0, 1, 2>> ELSE <<4, 0, 1, 2, 3>>)
                           \o (IF coloured THEN <<255, 0, 0>> ELSE <<>>))>>
        RECURSIVE vertex_lines(_)
        vertex_lines(i) == IF i > V THEN <<>> ELSE comment \o blank \o vertex_line(i) \o vertex_lines(i + 1)
        RECURSIVE face_lines(_)
        face_lines(k) == IF k > F THEN <<>> ELSE face_line(k) \o comment \o face_lines(k + 1)
    IN  <<Line("OFF", <<>>)>> \o comment \o blank \o <<Line("ints", <<V, F, 0>>)>>
        \o vertex_lines(1) \o comment \o face_lines(1)

OffTexts ==
    {OffText(V, F, commented, coloured) :
        V \in 1..MaxVerts, F \in 1..MaxWind, commented \in BOOLEAN, coloured \in BOOLEAN}
    \cup {<<Line("comment", <<>>), Line("ints", <<1, 1, 0>>)>>,
          <<Line("OFF", <<>>), Line("ints", <<2, 1, 0>>), Line("floats", <<0, 0, 0>>)>>,
          <<Line("OFF", <<>>), Line("ints", <<1, 1, 0>>), Line("floats", <<0, 0, 0>>),
            Line("blank", <<>>), Line("ints", <<3, 0, 0, 0>>)>>}

InitOff ==
    /\ NotOffIdle
    /\ \/ pc = "write_off_file" /\ off_mesh \in OffMeshes /\ off_file = <<>>
       \/ pc = "parse_off_file" /\ off_mesh = NoMesh /\ off_file \in OffTexts
    /\ parsed = NotParsed
    /\ mapped = NotMapped
    /\ off_raised = ""

SpecOff == InitOff /\ [][NextOff]_vars

(* the lines of a kind among the lines of a file, in order *)
LinesOfKind(lines, kind) ==
    LET OfKind(line) == line.kind = kind IN SelectSeq(lines, OfKind)

(* the counts line of a file: its first line of integers *)
CountsLine(lines) == LinesOfKind(lines, "ints")[1]

(* the face lines of a file: its lines of integers after the counts line *)
FaceLines(lines) == Tail(LinesOfKind(lines, "ints"))

(* the vertex indices of face i of a mesh, i counted from 1 *)
FaceVertices(m, i) ==
    SubSeq(m.winding_order, m.faces[i] + 1,
           IF i = Len(m.faces) THEN Len(m.winding_order) ELSE m.faces[i + 1])

(* write_off_file has written the file of a mesh *)
Written == off_mesh.present /\ pc # "write_off_file"

(* C8: the counts line written by write_off_file declares len(faces) faces and
   is followed by len(faces) face lines, face line i being the vertex count
   of face i and then its vertex indices. *)
C8_DeclaredFacesAreWritten ==
    Written =>
        /\ CountsLine(off_file).fields[2] = Len(off_mesh.faces)
        /\ Len(FaceLines(off_file)) = Len(off_mesh.faces)
        /\ \A i \in 1..Len(off_mesh.faces) :
               FaceLines(off_file)[i].fields
                   = <<Len(FaceVertices(off_mesh, i))>> \o FaceVertices(off_mesh, i)

(* the round trip of a mesh is complete *)
RoundTripDone == off_mesh.present /\ pc = "off_done"

Distance(a, b) == IF a < b THEN b - a ELSE a - b

(* C9: writing a mesh of at least one face, parsing the file and mapping the
   parsed faces always completes and reproduces the faces start offsets and
   the winding_order exactly, and every vertex coordinate rounded to six
   decimals: it is a whole number of millionths within half a millionth of the
   coordinate written, hence the same when that has at most six decimals. *)
C9_RoundTripToSixDecimals ==
    /\ off_mesh.present => pc \notin {"off_raised", "off_not_parsed"}
    /\ RoundTripDone =>
           /\ mapped.faces = off_mesh.faces
           /\ mapped.winding_order = off_mesh.winding_order
           /\ Len(parsed.off_vertices) = Len(off_mesh.vertices)
           /\ \A i \in 1..Len(off_mesh.vertices) : \A j \in 1..3 :
                  /\ parsed.off_vertices[i][j] % 10 = 0
                  /\ Distance(parsed.off_vertices[i][j], off_mesh.vertices[i][j]) <= 5

(* a mesh of two faces and a coordinate with a seventh decimal has made the round trip *)
C9_Witness ==
    /\ RoundTripDone
    /\ Len(off_mesh.faces) >= 2
    /\ \E i \in 1..Len(off_mesh.vertices) : off_mesh.vertices[i][1] % 10 # 0

(* C9 as stated: the round trip reproduces the same vertices, the same faces
   and the same winding_order for every mesh. *)
C9_RoundTripIsExact ==
    RoundTripDone =>
        /\ parsed.off_vertices = off_mesh.vertices
        /\ mapped.faces = off_mesh.faces
        /\ mapped.winding_order = off_mesh.winding_order

(* parse_off_file has returned the vertices and faces of a text that holds
   the vertex lines and the face lines its counts line declares *)
ParsedAsDeclared ==
    /\ parsed.returned = "tuple"
    /\ CountsLine(off_file).fields[1] = Len(LinesOfKind(off_file, "floats"))
    /\ CountsLine(off_file).fields[2] = Len(FaceLines(off_file))

(* C10: for a text whose counts line declares V vertices and F faces, comment
   lines among its lines, parse_off_file returns V vertices of three
   coordinates, those of the vertex lines, and F face rows, row k being the
   vertex count n of face line k and its n vertex indices, without the values
   that follow them. *)
C10_ParsedCountsAreDeclared ==
    ParsedAsDeclared =>
        /\ Len(parsed.off_vertices) = CountsLine(off_file).fields[1]
        /\ \A i \in 1..Len(parsed.off_vertices) :
               /\ Len(parsed.off_vertices[i]) = 3
               /\ \A j \in 1..3 :
                      parsed.off_vertices[i][j] = 10 * LinesOfKind(off_file, "floats")[i].fields[j]
        /\ Len(parsed.all_faces) = CountsLine(off_file).fields[2]
        /\ \A k \in 1..Len(parsed.all_faces) :
               /\ Len(parsed.all_faces[k]) = parsed.all_faces[k][1] + 1
               /\ parsed.all_faces[k] = SubSeq(FaceLines(off_file)[k].fields, 1, Len(parsed.all_faces[k]))

(* a text of two faces with comment lines among its lines and colour values
   after the vertex indices has been parsed *)
C10_Witness ==
    /\ ParsedAsDeclared
    /\ Len(parsed.all_faces) >= 2
    /\ Len(LinesOfKind(off_file, "comment")) >= 3
    /\ \E k \in 1..Len(parsed.all_faces) :
           Len(FaceLines(off_file)[k].fields) > Len(parsed.all_faces[k])

----------------------------------------------------------------------------
(* Rotations between vectors: nexusutils.py, and the facing element of
   idfparser.py. Vectors lie along one axis, so that unit vectors, cross
   products and the sines and cosines of the angles between them are whole
   numbers. *)

MaxMag == 2

MaxTurns == 4

(* the reciprocal of isclose's rel_tol=1e-09 and of np.allclose's rtol=1e-05 *)
RelTolInverse == 1000000000

RtolInverse == 100000

Max2(x, y) == IF x < y THEN y ELSE x

(* isclose: abs(a-b) <= max(rel_tol * max(abs(a), abs(b)), abs_tol), abs_tol 0.0 *)
isclose(a, b) == Abs(a - b) <= Max2(Max2(Abs(a), Abs(b)) \div RelTolInverse, 0)

(* entries compared without their signs *)
allclose_up_to_sign(a, b) ==
    \A i \in 1..Len(a) : Abs(Abs(a[i]) - Abs(b[i])) <= Abs(b[i]) \div RtolInverse

(* np.allclose: abs(a - b) <= atol + rtol * abs(b) for every entry; atol=1e-08
   is below the grid *)
allclose(a, b) == \A i \in 1..Len(a) : Abs(a[i] - b[i]) <= Abs(b[i]) \div RtolInverse

(* np.cross *)
np_cross(a, b) ==
    << a[2] * b[3] - a[3] * b[2],
       a[3] * b[1] - a[1] * b[3],
       a[1] * b[2] - a[2] * b[1] >>

(* np.arccos of the cosines the grid has, in radians *)
np_arccos(x) ==
    CASE x = 1 -> 0
      [] x = 0 -> 1
      [] x = 0 - 1 -> 2

(* the value find_rotation_axis_and_angle_between_vectors returns, or raises *)
AxisAndAngle(axis, angle) ==
    [raised |-> "", is_none |-> FALSE, axis |-> axis, angle |-> angle]

NoneAndNone == [raised |-> "", is_none |-> TRUE, axis |-> NoneVec, angle |-> 0]

Raises(exception) == [raised |-> exception, is_none |-> FALSE, axis |-> NoneVec, angle |-> 0]

(* the same axis with the angle of the right-handed rotation about it *)
find_rotation_axis_and_positive_angle(vector_a, vector_b) ==
    IF allclose(normalise(vector_a).unit_vector, normalise(vector_b).unit_vector) THEN NoneAndNone
    ELSE IF isclose(normalise(np_cross(vector_a, vector_b)).magnitude, 0)
    THEN Raises("NotImplementedError")
    ELSE AxisAndAngle(normalise(np_cross(vector_a, vector_b)).unit_vector,
                      np_arccos(Dot3(vector_a, vector_b)
                                \div (normalise(vector_a).magnitude * normalise(vector_b).magnitude)))

find_rotation_axis_and_angle_between_vectors(vector_a, vector_b) ==
    LET unit_a == normalise(vector_a).unit_vector
        mag_a == normalise(vector_a).magnitude
        unit_b == normalise(vector_b).unit_vector
        mag_b == normalise(vector_b).magnitude
    IN  IF allclose(unit_a, unit_b) THEN NoneAndNone
        ELSE LET cross_prod == np_cross(vector_a, vector_b)
                 mag_cross == normalise(cross_prod).magnitude
             IN  IF isclose(mag_cross, 0) THEN Raises("NotImplementedError")
                 ELSE AxisAndAngle([i \in 1..3 |-> cross_prod[i] \div mag_cross],
                                   (0 - 1) * np_arccos(Dot3(vector_a, vector_b) \div (mag_a * mag_b)))

identity_matrix == << <<1, 0, 0>>, <<0, 1, 0>>, <<0, 0, 1>> >>

(* find_rotation_matrix_between_vectors; skew_symmetric ** 2.0 squares every
   entry of the array *)
find_rotation_matrix_between_vectors(vector_a, vector_b) ==
    LET unit_a == normalise(vector_a).unit_vector
        unit_b == normalise(vector_b).unit_vector
    IN  IF allclose(unit_a, unit_b) THEN [raised |-> "", matrix |-> identity_matrix]
        ELSE LET found == find_rotation_axis_and_angle_between_vectors(vector_a, vector_b)
                 axis == found.axis
                 angle == found.angle
                 skew_symmetric == << <<0, 0 - axis[3], axis[2]>>,
                                      <<axis[3], 0, 0 - axis[1]>>,
                                      <<0 - axis[2], axis[1], 0>> >>
             IN  IF found.raised # "" THEN [raised |-> found.raised, matrix |-> <<>>]
                 ELSE [raised |-> "",
                       matrix |-> [i \in 1..3 |-> [j \in 1..3 |->
                           identity_matrix[i][j] + np_sin(angle) * skew_symmetric[i][j]
                           + (1 - np_cos(angle)) * (skew_symmetric[i][j] * skew_symmetric[i][j])]]]

(* the direction every component faces before it is oriented *)
Forward == <<0, 0, 0 - 1>>

(* the facing element read as the rotation of the facing direction from forward *)
parse_facing_element_from_forward(xml_component) ==
    LET location_type == xml_component.location
        facing_type == location_type.facing
        found == find_rotation_axis_and_angle_between_vectors(
                     Forward, VecAdd(get_vector(facing_type), Scale(get_vector(location_type), 0 - 1)))
    IN  IF ~location_type.present \/ ~facing_type.present
        THEN [raised |-> "", has_orientation |-> FALSE, orientation |-> <<>>]
        ELSE IF get_vector(facing_type) = NoneVec \/ get_vector(location_type) = NoneVec
                \/ found.is_none
        THEN [raised |-> "TypeError", has_orientation |-> FALSE, orientation |-> <<>>]
        ELSE IF found.raised # ""
        THEN [raised |-> found.raised, has_orientation |-> FALSE, orientation |-> <<>>]
        ELSE [raised |-> "", has_orientation |-> TRUE,
              orientation |-> [axis |-> found.axis, angle |-> rad2deg(found.angle)]]

(* __parse_facing_element: the orientation, None when the component has no
   location or the location no facing element. A None vector cannot be
   subtracted and np.rad2deg(None) is a TypeError. *)
parse_facing_element(xml_component) ==
    LET location_type == xml_component.location
    IN  IF ~location_type.present
        THEN [raised |-> "", has_orientation |-> FALSE, orientation |-> <<>>]
        ELSE LET location == get_vector(location_type)
                 facing_type == location_type.facing
             IN  IF ~facing_type.present
                 THEN [raised |-> "", has_orientation |-> FALSE, orientation |-> <<>>]
                 ELSE LET facing_point == get_vector(facing_type)
                          vector_to_face_point == VecAdd(facing_point, Scale(location, 0 - 1))
                          found == find_rotation_axis_and_angle_between_vectors(
                                       vector_to_face_point, Forward)
                      IN  IF facing_point = NoneVec \/ location = NoneVec
                          THEN [raised |-> "TypeError", has_orientation |-> FALSE,
                                orientation |-> <<>>]
                          ELSE IF found.raised # ""
                          THEN [raised |-> found.raised, has_orientation |-> FALSE,
                                orientation |-> <<>>]
                          ELSE IF found.is_none
                          THEN [raised |-> "TypeError", has_orientation |-> FALSE,
                                orientation |-> <<>>]
                          ELSE [raised |-> "", has_orientation |-> TRUE,
                                orientation |-> [axis |-> found.axis,
                                                 angle |-> rad2deg(found.angle)]]

(* normalise, for any vector of the grid: the unit vector is the vector
   `direction` divided by the square root of `squared_magnitude`; the zero
   vector is returned as the zero vector with magnitude 0 *)
normalise_to_direction(input_vector) ==
    LET squared_magnitude == Dot3(input_vector, input_vector)
    IN  IF squared_magnitude = 0 THEN [direction |-> ZeroVec, squared_magnitude |-> 0]
        ELSE [direction |-> input_vector, squared_magnitude |-> squared_magnitude]

(* the same construction without the change of sign *)
get_an_unsigned_unit_vector(input_vector) ==
    IF Abs(input_vector[3]) < Abs(input_vector[1])
    THEN normalise_to_direction(<<input_vector[2], input_vector[1], 0>>)
    ELSE normalise_to_direction(<<0, input_vector[3], input_vector[2]>>)

(* get_an_orthogonal_unit_vector *)
get_an_orthogonal_unit_vector(input_vector) ==
    IF Abs(input_vector[3]) < Abs(input_vector[1])
    THEN LET vector == <<input_vector[2], 0 - input_vector[1], 0>>
         IN  normalise_to_direction(vector)
    ELSE LET vector == <<0, 0 - input_vector[3], input_vector[2]>>
         IN  normalise_to_direction(vector)

(* One call of each function *)
GetAnOrthogonalUnitVector ==
    /\ pc = "get_an_orthogonal_unit_vector"
    /\ rot_result' = get_an_orthogonal_unit_vector(rot_args.input_vector)
    /\ pc' = "orthogonal_done"
    /\ UNCHANGED <<rot_args, rot_raised, not_rot_vars>>

FindRotationAxisAndAngleBetweenVectors ==
    /\ pc = "find_rotation_axis_and_angle_between_vectors"
    /\ LET found == find_rotation_axis_and_angle_between_vectors(rot_args.vector_a,
                                                                 rot_args.vector_b)
       IN  /\ rot_result' = found
           /\ rot_raised' = found.raised
    /\ pc' = "axis_and_angle_done"
    /\ UNCHANGED <<rot_args, not_rot_vars>>

RotationMatrixFromAxisAndAngle ==
    /\ pc = "rotation_matrix_from_axis_and_angle"
    /\ rot_result' = rotation_matrix_from_axis_and_angle(rot_args.axis, rot_args.theta)
    /\ pc' = "rotation_matrix_done"
    /\ UNCHANGED <<rot_args, rot_raised, not_rot_vars>>

FindRotationMatrixBetweenVectors ==
    /\ pc = "find_rotation_matrix_between_vectors"
    /\ LET found == find_rotation_matrix_between_vectors(rot_args.vector_a, rot_args.vector_b)
       IN  /\ rot_result' = found.matrix
           /\ rot_raised' = found.raised
    /\ pc' = "matrix_between_done"
    /\ UNCHANGED <<rot_args, not_rot_vars>>

ParseFacingElement ==
    /\ pc = "parse_facing_element"
    /\ LET parsed_facing == parse_facing_element(rot_args.xml_component)
       IN  /\ rot_result' = parsed_facing
           /\ rot_raised' = parsed_facing.raised
    /\ pc' = "facing_done"
    /\ UNCHANGED <<rot_args, not_rot_vars>>

NextRot ==
    \/ FindRotationAxisAndAngleBetweenVectors
    \/ RotationMatrixFromAxisAndAngle
    \/ FindRotationMatrixBetweenVectors
    \/ ParseFacingElement
    \/ GetAnOrthogonalUnitVector

(* The vectors along one axis, the zero vector among them *)
SignedUnitAxes == UnitAxes \cup {Scale(u, 0 - 1) : u \in UnitAxes}

AxisVectors == {Scale(u, k) : u \in UnitAxes, k \in (0 - MaxMag)..MaxMag}

NoFacing == [present |-> FALSE, vector |-> NoneVec]

NoLocation == [present |-> FALSE, vector |-> NoneVec, facing |-> NoFacing]

(* components: without a location, with a location that has no facing element,
   and with a facing point that lies along one axis from the location *)
FacingComponents ==
    {[location |-> NoLocation]}
    \cup {[location |-> [present |-> TRUE, vector |-> l, facing |-> NoFacing]] :
            l \in {ZeroVec, <<1, 2, 0>>}}
    \cup {[location |-> [present |-> TRUE, vector |-> l,
                         facing |-> [present |-> TRUE, vector |-> VecAdd(l, d)]]] :
            l \in {ZeroVec, <<1, 2, 0>>}, d \in AxisVectors}
    \cup {[location |-> [present |-> TRUE, vector |-> <<1, 2, 0>>,
                         facing |-> [present |-> TRUE, vector |-> NoneVec]]]}

(* every vector of the grid, the zero vector among them *)
GridVectors ==
    {<<a, b, c>> : a \in (0 - MaxMag)..MaxMag, b \in (0 - MaxMag)..MaxMag,
                   c \in (0 - MaxMag)..MaxMag}

InitRot ==
    /\ NotRotIdle
    /\ rot_result = <<>>
    /\ rot_raised = ""
    /\ \/ /\ pc \in {"find_rotation_axis_and_angle_between_vectors",
                     "find_rotation_matrix_between_vectors"}
          /\ rot_args \in [vector_a : AxisVectors, vector_b : AxisVectors]
       \/ /\ pc = "rotation_matrix_from_axis_and_angle"
          /\ rot_args \in [axis : SignedUnitAxes, theta : (0 - MaxTurns)..MaxTurns]
       \/ /\ pc = "parse_facing_element"
          /\ rot_args \in [xml_component : FacingComponents]
       \/ /\ pc = "get_an_orthogonal_unit_vector"
          /\ rot_args \in [input_vector : GridVectors]

SpecRot == InitRot /\ [][NextRot]_vars

----------------------------------------------------------------------------
(* the component of the call had a facing element, d is facing point - location *)
FacingDone ==
    /\ pc = "facing_done"
    /\ rot_args.xml_component.location.present
    /\ rot_args.xml_component.location.facing.present
    /\ rot_args.xml_component.location.vector # NoneVec
    /\ rot_args.xml_component.location.facing.vector # NoneVec

FacingDirection ==
    VecAdd(rot_args.xml_component.location.facing.vector,
           Scale(rot_args.xml_component.location.vector, 0 - 1))

(* d is neither parallel nor anti-parallel to the forward vector *)
FacingIsOblique == np_cross(FacingDirection, Forward) # ZeroVec

(* C11: when the direction d from the location to the facing point is neither
   parallel nor anti-parallel to (0,0,-1), an orientation is stored, and the
   rotation the flattener builds from its axis and its angle in degrees maps
   (0,0,-1) onto the unit vector of d. *)
C11_OrientationTurnsForwardOntoFacing ==
    (FacingDone /\ FacingIsOblique) =>
        /\ rot_raised = ""
        /\ rot_result.has_orientation
        /\ MatVec(rotation_matrix_from_axis_and_angle(rot_result.orientation.axis,
                                                      deg2rad(rot_result.orientation.angle)),
                  Forward)
           = normalise(FacingDirection).unit_vector

C11_Witness ==
    /\ FacingDone
    /\ FacingIsOblique
    /\ FacingDirection = <<0, 2, 0>>
    /\ rot_result.has_orientation
    /\ rot_result.orientation.angle = 0 - 90

(* the call of find_rotation_axis_and_angle_between_vectors has ended *)
AxisAndAngleDone == pc = "axis_and_angle_done"

(* vector_a and vector_b are neither parallel nor anti-parallel *)
VectorsAreOblique == np_cross(rot_args.vector_a, rot_args.vector_b) # ZeroVec

(* C12: for vectors a and b that are neither parallel nor anti-parallel the
   function returns the axis cross(a,b)/|cross(a,b)| and the angle
   -arccos(dot(a,b)/(|a||b|)); for a=(1,0,0), b=(0,1,0) that is the axis (0,0,1)
   and the angle -pi/2, and for every pair of orthogonal unit vectors along the
   axes it is the axis a x b and the angle -90 degrees. *)
C12_AxisIsCrossAndAngleIsMinusArccos ==
    (AxisAndAngleDone /\ VectorsAreOblique) =>
        LET a == rot_args.vector_a
            b == rot_args.vector_b
            cross == np_cross(a, b)
        IN  /\ rot_raised = ""
            /\ ~rot_result.is_none
            /\ Scale(rot_result.axis, normalise(cross).magnitude) = cross
            /\ Dot3(rot_result.axis, rot_result.axis) = 1
            /\ rot_result.angle \in (0 - 2)..0
            /\ np_cos(0 - rot_result.angle) * normalise(a).magnitude * normalise(b).magnitude
               = Dot3(a, b)
            /\ (a = <<1, 0, 0>> /\ b = <<0, 1, 0>>) =>
                   (rot_result.axis = <<0, 0, 1>> /\ rot_result.angle = 0 - 1)
            /\ (a \in SignedUnitAxes /\ b \in SignedUnitAxes) =>
                   (rot_result.axis = cross /\ rad2deg(rot_result.angle) = 0 - 90)

C12_Witness ==
    /\ AxisAndAngleDone
    /\ rot_args.vector_a = <<1, 0, 0>>
    /\ rot_args.vector_b = <<0, 1, 0>>
    /\ rot_result.axis = <<0, 0, 1>>
    /\ rot_result.angle = 0 - 1

(* vector_a and vector_b point the same way: one is a positive multiple of the
   other, or they are equal *)
VectorsAreParallel ==
    /\ np_cross(rot_args.vector_a, rot_args.vector_b) = ZeroVec
    /\ \/ Dot3(rot_args.vector_a, rot_args.vector_b) > 0
       \/ rot_args.vector_a = rot_args.vector_b

(* C13: find_rotation_axis_and_angle_between_vectors returns (None, None)
   whenever the two vectors are parallel, and raises, returning no axis,
   whenever their cross product is zero and they are not parallel. *)
C13_ParallelIsNoneAndAntiParallelRaises ==
    AxisAndAngleDone =>
        /\ VectorsAreParallel => (rot_raised = "" /\ rot_result.is_none)
        /\ (~VectorsAreOblique /\ ~VectorsAreParallel) =>
               (rot_raised = "NotImplementedError" /\ rot_result.axis = NoneVec)

C13_Witness ==
    /\ AxisAndAngleDone
    /\ rot_args.vector_a = <<0, 2, 0>>
    /\ rot_args.vector_b = <<0, 1, 0>>
    /\ rot_result = NoneAndNone

(* 3x3 matrices *)
MatMul(m, n) == [i \in 1..3 |-> [j \in 1..3 |-> m[i][1] * n[1][j] + m[i][2] * n[2][j] + m[i][3] * n[3][j]]]

Transpose(m) == [i \in 1..3 |-> [j \in 1..3 |-> m[j][i]]]

Det3(m) ==
    m[1][1] * (m[2][2] * m[3][3] - m[2][3] * m[3][2])
    - m[1][2] * (m[2][1] * m[3][3] - m[2][3] * m[3][1])
    + m[1][3] * (m[2][1] * m[3][2] - m[2][2] * m[3][1])

IsProperRotation(m) == MatMul(m, Transpose(m)) = identity_matrix /\ Det3(m) = 1

RotationMatrixDone == pc = "rotation_matrix_done"

(* C14: the matrix returned for a unit axis along a coordinate axis and an
   angle that is a multiple of 90 degrees is orthogonal with determinant +1,
   leaves the axis fixed, and multiplied by the matrix for the opposite angle
   gives the identity; for the axis (0,0,1) and -90 degrees it is
   [[0,1,0],[-1,0,0],[0,0,1]]. *)
C14_RodriguesMatrixIsProperRotation ==
    RotationMatrixDone =>
        /\ IsProperRotation(rot_result)
        /\ MatVec(rot_result, rot_args.axis) = rot_args.axis
        /\ MatMul(rot_result,
                  rotation_matrix_from_axis_and_angle(rot_args.axis, 0 - rot_args.theta))
           = identity_matrix
        /\ (rot_args.axis = <<0, 0, 1>> /\ rot_args.theta = deg2rad(0 - 90)) =>
               rot_result = << <<0, 1, 0>>, <<0 - 1, 0, 0>>, <<0, 0, 1>> >>

C14_Witness ==
    /\ RotationMatrixDone
    /\ rot_args.axis = <<0, 0, 1>>
    /\ rot_args.theta = deg2rad(0 - 90)
    /\ rot_result = << <<0, 1, 0>>, <<0 - 1, 0, 0>>, <<0, 0, 1>> >>

(* the call of find_rotation_matrix_between_vectors returned a matrix *)
MatrixBetweenReturned == pc = "matrix_between_done" /\ rot_raised = ""

(* C15: for every pair of non-zero vectors a and b for which
   find_rotation_matrix_between_vectors returns, the matrix is orthogonal with
   determinant +1 and maps a/|a| onto b/|b|; for coinciding vectors it is the
   identity. *)
C15_MatrixRotatesAOntoB ==
    (/\ MatrixBetweenReturned
     /\ rot_args.vector_a # ZeroVec
     /\ rot_args.vector_b # ZeroVec) =>
        /\ IsProperRotation(rot_result)
        /\ MatVec(rot_result, normalise(rot_args.vector_a).unit_vector)
           = normalise(rot_args.vector_b).unit_vector
        /\ (rot_args.vector_a = rot_args.vector_b) => rot_result = identity_matrix

(* C21: for every non-zero vector v, get_an_orthogonal_unit_vector(v) is a
   non-zero vector of unit length whose dot product with v is zero. *)
C21_OrthogonalUnitVector ==
    (pc = "orthogonal_done" /\ rot_args.input_vector # ZeroVec) =>
        /\ rot_result.direction # ZeroVec
        /\ rot_result.squared_magnitude > 0
        /\ Dot3(rot_result.direction, rot_result.direction) = rot_result.squared_magnitude
        /\ Dot3(rot_result.direction, rot_args.input_vector) = 0

C21_Witness ==
    /\ pc = "orthogonal_done"
    /\ rot_args.input_vector = <<2, 1, 1>>
    /\ rot_result = [direction |-> <<1, 0 - 2, 0>>, squared_magnitude |-> 5]

----------------------------------------------------------------------------
(* The accumulation of the geometry of every group: nexus_geometry_to_off_file
   and accumulate_geometry of nexustooff.py. An accumulator is a record
   [is_none, value]: None before the first group, an array afterwards. *)

MaxGroups == 2

NoneArray == [is_none |-> TRUE, value |-> <<>>]

Array(value) == [is_none |-> FALSE, value |-> value]

(* faces re-based as winding_order is: by the vertex count *)
accumulate_geometry_by_vertex_count(verts, fcs, winding, new_vertices, new_faces, new_winding_order) ==
    [faces |-> IF ~fcs.is_none
               THEN Array(fcs.value \o AddScalar(new_faces, Len(verts.value)))
               ELSE Array(new_faces),
     winding_order |-> IF ~winding.is_none
                       THEN Array(winding.value \o AddScalar(new_winding_order, Len(verts.value)))
                       ELSE Array(new_winding_order),
     vertices |-> IF ~verts.is_none THEN Array(verts.value \o new_vertices)
                  ELSE Array(new_vertices)]

accumulate_geometry(verts, fcs, winding, new_vertices, new_faces, new_winding_order) ==
    [faces |-> IF ~fcs.is_none
               THEN Array(fcs.value \o AddScalar(new_faces, Len(winding.value)))
               ELSE Array(new_faces),
     winding_order |-> IF ~winding.is_none
                       THEN Array(winding.value \o AddScalar(new_winding_order, Len(verts.value)))
                       ELSE Array(new_winding_order),
     vertices |-> IF ~verts.is_none THEN Array(verts.value \o new_vertices)
                  ELSE Array(new_vertices)]

(* one turn of the loop over geometry_groups: the geometry of the next group
   is accumulated *)
AccumulateGeometry ==
    /\ pc = "accumulate_geometry"
    /\ group_index < Len(geometry)
    /\ LET new == geometry[group_index + 1]
       IN  accumulated' = accumulate_geometry(accumulated.vertices, accumulated.faces,
                                              accumulated.winding_order,
                                              new.vertices, new.faces, new.winding_order)
    /\ group_index' = group_index + 1
    /\ UNCHANGED <<pc, geometry, acc_file, acc_raised, not_acc_vars>>

(* the end of the loop and the call of write_off_file; len(None) is a TypeError *)
WriteAccumulatedGeometry ==
    /\ pc = "accumulate_geometry"
    /\ group_index = Len(geometry)
    /\ IF accumulated.vertices.is_none
       THEN /\ acc_raised' = "TypeError"
            /\ pc' = "accumulate_raised"
            /\ UNCHANGED acc_file
       ELSE /\ acc_file' = write_off_file(accumulated.vertices.value, accumulated.faces.value,
                                          accumulated.winding_order.value)
            /\ pc' = "geometry_written"
            /\ UNCHANGED acc_raised
    /\ UNCHANGED <<geometry, group_index, accumulated, not_acc_vars>>

NextAcc ==
    \/ AccumulateGeometry
    \/ WriteAccumulatedGeometry

(* the geometry get_geometry_from_group returns for a group: meshes that are
   well-formed on their own *)
GroupMeshes ==
    {Triangle,
     [vertices |-> <<<<5, 5, 5>>>>, faces |-> <<0, 1>>, winding_order |-> <<0, 0>>],
     [vertices |-> <<<<1, 1, 0>>, <<2, 2, 0>>>>, faces |-> <<0>>, winding_order |-> <<1, 0>>],
     [vertices |-> <<ZeroVec, <<0, 0, 1>>, <<0, 1, 1>>, <<0, 1, 0>>>>, faces |-> <<0, 3>>,
      winding_order |-> <<0, 1, 2, 2, 3, 0>>],
     [vertices |-> <<<<7, 0, 0>>, <<7, 1, 0>>>>, faces |-> <<0, 2, 3>>,
      winding_order |-> <<0, 1, 1, 0>>],
     [vertices |-> <<<<9, 9, 9>>>>, faces |-> <<0>>, winding_order |-> <<0>>]}

InitAcc ==
    /\ pc = "accumulate_geometry"
    /\ NotAccIdle
    /\ geometry \in SeqsUpTo(GroupMeshes, MaxGroups)
    /\ group_index = 0
    /\ accumulated = [vertices |-> NoneArray, faces |-> NoneArray, winding_order |-> NoneArray]
    /\ acc_file = <<>>
    /\ acc_raised = ""

SpecAcc == InitAcc /\ [][NextAcc]_vars

(* the number of vertices, faces and winding-order entries of the first k groups *)
RECURSIVE VerticesBefore(_)
VerticesBefore(k) == IF k = 0 THEN 0 ELSE VerticesBefore(k - 1) + Len(geometry[k].vertices)

RECURSIVE FacesBefore(_)
FacesBefore(k) == IF k = 0 THEN 0 ELSE FacesBefore(k - 1) + Len(geometry[k].faces)

RECURSIVE WindingBefore(_)
WindingBefore(k) == IF k = 0 THEN 0 ELSE WindingBefore(k - 1) + Len(geometry[k].winding_order)

(* C22: after any number of accumulate_geometry calls starting from None
   accumulators, with meshes that are well-formed on their own, every faces
   entry is a start offset into the accumulated winding_order, every
   winding_order entry is an index of an accumulated vertex, and the entries
   of the k-th mesh are shifted by the winding-order length (faces) and the
   vertex count (winding_order) accumulated before it. *)
C22_AccumulatedMeshIsWellFormed ==
    (geometry # <<>> /\ group_index >= 1) =>
        LET verts == accumulated.vertices.value
            fcs == accumulated.faces.value
            winding == accumulated.winding_order.value
        IN  /\ ~accumulated.vertices.is_none
            /\ ~accumulated.faces.is_none
            /\ ~accumulated.winding_order.is_none
            /\ Len(verts) = VerticesBefore(group_index)
            /\ Len(fcs) = FacesBefore(group_index)
            /\ Len(winding) = WindingBefore(group_index)
            /\ \A i \in 1..Len(fcs) : fcs[i] >= 0 /\ fcs[i] < Len(winding)
            /\ \A i \in 1..(Len(fcs) - 1) : fcs[i] < fcs[i + 1]
            /\ \A i \in 1..Len(winding) : winding[i] >= 0 /\ winding[i] < Len(verts)
            /\ \A k \in 1..group_index :
                 /\ \A i \in 1..Len(geometry[k].faces) :
                      fcs[FacesBefore(k - 1) + i] = geometry[k].faces[i] + WindingBefore(k - 1)
                 /\ \A i \in 1..Len(geometry[k].winding_order) :
                      winding[WindingBefore(k - 1) + i]
                      = geometry[k].winding_order[i] + VerticesBefore(k - 1)
                 /\ \A i \in 1..Len(geometry[k].vertices) :
                      verts[VerticesBefore(k - 1) + i] = geometry[k].vertices[i]

(* a mesh of one vertex and two winding entries, then a triangle, accumulated *)
C22_Witness ==
    /\ pc = "geometry_written"
    /\ group_index = 2
    /\ Len(geometry[1].vertices) = 1
    /\ Len(geometry[1].winding_order) = 2
    /\ geometry[2] = Triangle
    /\ accumulated.faces.value = <<0, 1, 2>>
    /\ accumulated.winding_order.value = <<0, 0, 1, 2, 3>>

----------------------------------------------------------------------------
(* The walk along the depends_on chain *)

(* the matrices of a list of transformation datasets, in the list's order *)
MatricesOf(chain) == [k \in 1..Len(chain) |-> get_transformation(chain[k])]

(* C23: get_transformations, started from the group's depends_on, follows the
   depends_on of each transformation until it reaches '.', then stops, and has
   collected every transformation of the chain exactly once, the nearest
   dependency first and the one that depends on '.' last. *)
C23_ChainWalkedChildToRoot ==
    /\ [](pc \in {"get_transformations", "flattened"} =>
            transformations \o MatricesOf(ChainFrom(depends_on)) = MatricesOf(ChainFrom(group.depends_on)))
    /\ [](pc = "flattened" =>
            /\ depends_on = NoDependsOn \/ depends_on = Dot
            /\ transformations = MatricesOf(ChainFrom(group.depends_on)))
    /\ <>(pc = "flattened")

(* a chain of two different transformations walked to its end *)
C23_Witness ==
    /\ pc = "flattened"
    /\ group.depends_on = 1
    /\ depends_on = Dot
    /\ Len(nexus_file) = 2
    /\ Len(transformations) = 2
    /\ transformations[1] # transformations[2]
    /\ transformations[2] = get_transformation(nexus_file[2])

----------------------------------------------------------------------------
(* The top level component without a location *)

(* the components as the loop at the head of get_detectors collects them *)
Collected ==
    collect_for_pixels(idf, get_pixel_names(idf),
                       [components |-> <<>>, searched_already |-> <<>>, uuids |-> 0], 1).components

(* the collected top level components whose first location is None *)
Wrappers ==
    {w \in 1..Len(Collected) :
        /\ Collected[w].name \in find_top_level_detector_names(Collected)
        /\ Len(Collected[w].locations[1]) > 0
        /\ Collected[w].locations[1][1] = NoneVec}

(* the collected component the wrapper w has as its sub-component *)
SubOf(w) == component_index(Collected, Collected[w].sub_components[1])

(* the wrapper is gone, its sub-component is the top level detector, and one
   record of get_detectors stands for the pair *)
MergedInPlace(w) ==
    /\ component_index(components, Collected[w].name) = 0
    /\ component_index(components, Collected[SubOf(w)].name) # 0
    /\ Collected[w].name \notin top_level_detector_names
    /\ Collected[SubOf(w)].name \in top_level_detector_names
    /\ GetDetectorsReturned =>
           Cardinality({d \in 1..Len(detectors) :
               components[detectors[d]].name \in {Collected[w].name, Collected[SubOf(w)].name}}) = 1

(* get_detectors has merged the top level components without a location *)
WrappersFixed == idf # <<>> /\ pc \notin {"get_detectors", "idf_raised"}

(* C24: a top level detector component that has no location of its own is
   merged with its single sub-component: the wrapper is removed from the
   components, the sub-component is the top level detector in its place, one
   detector record results from the pair, and the merged detector carries the
   idlist of the wrapper. *)
C24_MergedCarriesWrapperIdList ==
    WrappersFixed =>
        \A w \in Wrappers :
            /\ MergedInPlace(w)
            /\ LET merged == components[component_index(components, Collected[SubOf(w)].name)]
               IN  /\ merged.idlist_kind = Collected[w].idlist_kind
                   /\ merged.idlist = Collected[w].idlist

(* a wrapper whose sub-component names an idlist of its own, merged and returned *)
C24_Witness ==
    /\ pc = "idf_done"
    /\ Wrappers # {}
    /\ \E w \in Wrappers :
         /\ Collected[SubOf(w)].idlist_kind = "list"
         /\ Collected[SubOf(w)].idlist # Collected[w].idlist
    /\ Len(detectors) = 1
    /\ components[detectors[1]].name = "bank"
    /\ components[detectors[1]].idlist = <<1, 2, 3, 4>>

(* C24 as stated: the merged top level detector has the idlist the
   sub-component was collected with. *)
C24_MergedInheritsSubComponentIdList ==
    WrappersFixed =>
        \A w \in Wrappers :
            /\ MergedInPlace(w)
            /\ LET merged == components[component_index(components, Collected[SubOf(w)].name)]
               IN  /\ merged.idlist_kind = Collected[SubOf(w)].idlist_kind
                   /\ merged.idlist = Collected[SubOf(w)].idlist

----------------------------------------------------------------------------
(* The order of the resolved offsets *)

(* for each location in declaration order, every offset of the sub-component
   in its order, translated by the location *)
ParentLocationMajor(sub_offsets, locations) ==
    [p \in 1..(Len(locations) * Len(sub_offsets)) |->
        VecAdd(sub_offsets[((p - 1) % Len(sub_offsets)) + 1],
               locations[((p - 1) \div Len(sub_offsets)) + 1])]

(* the resolved offsets of the k-th sub-component of a component: a pixel has
   the one offset zero *)
ResolvedOffsetsOfSub(component, k) ==
    IF component.sub_components[k] \in SeqToSet(get_pixel_names(idf)) THEN <<ZeroVec>>
    ELSE components[component_index(components, component.sub_components[k])].offsets

(* the lists of the sub-components from the k-th on, one after the other *)
RECURSIVE OffsetsOverSubs(_, _)
OffsetsOverSubs(component, k) ==
    IF k > Len(component.sub_components) THEN <<>>
    ELSE ParentLocationMajor(ResolvedOffsetsOfSub(component, k), component.locations[k])
         \o OffsetsOverSubs(component, k + 1)

RECURSIVE DetectorOffsetsOverSubs(_, _)
DetectorOffsetsOverSubs(component, k) ==
    IF k > Len(component.sub_components) THEN <<>>
    ELSE ResolvedOffsetsOfSub(component, k) \o DetectorOffsetsOverSubs(component, k + 1)

(* C25: the resolved offsets of a component that is not a top level component
   are, for each of its locations in declaration order, every resolved offset
   of the sub-component in the sub-component's order, translated by that
   location; a detector's offsets are those of its sub-component in the same
   order, so that position i of them is position i of that enumeration. *)
C25_OffsetsAreParentLocationMajor ==
    (idf # <<>> /\ pc \in {"collate_while", "get_rectangular_detectors", "idf_done"}) =>
        \A c \in 1..Len(components) :
            components[c].has_offsets =>
                IF components[c].name \in top_level_detector_names
                THEN components[c].offsets = DetectorOffsetsOverSubs(components[c], 1)
                ELSE components[c].offsets = OffsetsOverSubs(components[c], 1)

(* two tubes of two pixels in a bank: the pixels of the first tube come first *)
C25_Witness ==
    /\ pc = "idf_done"
    /\ \E c \in 1..Len(components) :
         /\ components[c].name = "bank"
         /\ components[c].name \notin top_level_detector_names
         /\ components[c].offsets = <<<<1, 10, 0>>, <<2, 10, 0>>, <<1, 20, 0>>, <<2, 20, 0>>>>
    /\ Len(detectors) = 1
    /\ components[detectors[1]].offsets = <<<<1, 10, 0>>, <<2, 10, 0>>, <<1, 20, 0>>, <<2, 20, 0>>>>
    /\ Len(components[detectors[1]].idlist) = 4

----------------------------------------------------------------------------
(* A component that faces along the forward vector *)

(* the direction from the location to the facing point is a positive multiple
   of the forward vector *)
FacingIsForward ==
    /\ np_cross(FacingDirection, Forward) = ZeroVec
    /\ FacingDirection[3] < 0

(* C26: when the facing direction of a component's location is parallel to the
   forward vector (0,0,-1), __parse_facing_element returns without raising and
   records no orientation. *)
C26_FacingForwardHasNoOrientation ==
    (FacingDone /\ FacingIsForward) =>
        /\ rot_raised = ""
        /\ ~rot_result.has_orientation

----------------------------------------------------------------------------
(* Termination of get_detectors *)

(* C27: get_detectors terminates for every instrument definition, also one in
   which component types hold each other cyclically: it returns its list or
   raises. *)
C27_GetDetectorsTerminates ==
    (pc = "collate_while") ~> (pc \in {"get_rectangular_detectors", "idf_done", "idf_raised"})

----------------------------------------------------------------------------
(* The list get_detectors returns *)

(* the records of the returned list that are the component called name *)
RecordsOf(name) == {d \in 1..Len(detectors) : components[detectors[d]].name = name}

(* C28: every top level detector component is in the list get_detectors
   returns exactly once, however many passes over the components the
   aggregation of the offsets takes. *)
C28_EachTopLevelDetectorOnce ==
    (GetDetectorsReturned /\ idf # <<>>) =>
        \A name \in top_level_detector_names : Cardinality(RecordsOf(name)) = 1

----------------------------------------------------------------------------
(* Pixels replicated in the frame of the detector *)

(* C29: for a geometry group named pixel_shape the flattened mesh holds, for
   every pixel offset o_k and every vertex p of the pixel mesh, the vertex
   p + o_k taken through the transformation chain of the detector: the pixel
   is replicated first and the copies are transformed with the detector. *)
C29_PixelsReplicatedBeforeChain ==
    (pc = "flattened" /\ group.name = "pixel_shape") =>
        LET v == Len(group.vertices)
        IN  /\ Len(vertices) = PixelCount * v
            /\ \A k \in 0..(PixelCount - 1) :
                 \A i \in 1..v :
                     vertices[k * v + i]
                     = SubSeq(ApplyRootFirst(ChainFrom(group.depends_on),
                                             Append(VecAdd(group.vertices[i], PixelOffset(k)), 1)),
                              1, 3)

----------------------------------------------------------------------------
(* Groups need an instrument *)

(* the operations that add a group to the instrument *)
GroupOperations == {"add_source", "add_monitor", "add_detector_minimal", "add_detector"}

(* the NX class of the group each operation adds *)
ClassOf(op) ==
    IF op = "add_source" THEN "NXsource" ELSE IF op = "add_monitor" THEN "NXmonitor" ELSE "NXdetector"

(* the step is a call of one of the operations with no instrument: it raises
   and adds no group *)
RaisesWithoutInstrument ==
    (builder_call'.op \in GroupOperations /\ ~instrument) =>
        /\ builder_call'.raised = "Exception"
        /\ file_groups' = file_groups
        /\ ~instrument'

(* the step added the group of the operation beneath the instrument group, and
   nothing outside the instrument group *)
AddsBeneathInstrument ==
    /\ builder_call'.raised = ""
    /\ [parent |-> instrument_path, name |-> builder_call'.name, nx_class |-> ClassOf(builder_call'.op)]
           \in file_groups' \ file_groups
    /\ \A g \in file_groups' \ file_groups :
           Len(g.parent) >= 1 /\ g.parent[1] = instrument_group
    /\ file_groups \subseteq file_groups'

(* the instrument group has a member of the name already: create_group raises
   and nothing is added *)
RaisesOnExistingName ==
    /\ builder_call'.raised = "ValueError"
    /\ \E g \in file_groups : g.parent = instrument_path /\ g.name = builder_call'.name
    /\ file_groups' = file_groups

(* C30: in every sequence of operations, add_source, add_monitor,
   add_detector_minimal and add_detector raise and add no group while no
   add_instrument call has preceded them; once add_instrument has been called,
   add_source, add_monitor and add_detector_minimal add their group beneath the
   instrument group, unless the instrument group already has a member of that
   name, in which case they raise and add nothing. *)
C30_GroupsNeedAnInstrument ==
    [][/\ RaisesWithoutInstrument
       /\ (builder_call'.op \in GroupOperations \ {"add_detector"} /\ instrument) =>
              (AddsBeneathInstrument \/ RaisesOnExistingName)]_vars

(* a source, then a monitor, added beneath the instrument *)
C30_Witness ==
    /\ instrument
    /\ builder_call = [op |-> "add_monitor", name |-> "monitor_1", raised |-> ""]
    /\ [parent |-> <<"instrument">>, name |-> "source", nx_class |-> "NXsource"] \in file_groups
    /\ [parent |-> <<"instrument">>, name |-> "monitor_1", nx_class |-> "NXmonitor"] \in file_groups
    /\ \A g \in file_groups : g.nx_class # "NXinstrument" => g.parent[1] = "instrument"

(* C30 as stated: once add_instrument has been called, each of the three
   operations adds its group beneath the instrument group. *)
C30_EveryCallAddsItsGroup ==
    [][/\ RaisesWithoutInstrument
       /\ (builder_call'.op \in GroupOperations \ {"add_detector"} /\ instrument) =>
              AddsBeneathInstrument]_vars
====
